---------------------------- MODULE Spec2Model ----------------------------
(***************************************************************************)
(* Verification model of the e-mail validation pipelines of the            *)
(* repository (backend/validator): the fast pipeline                       *)
(* (fast_validator.py), the default async pipeline (async_validator.py)    *)
(* and the strict SMTP verifier (strict_validator.py).                     *)
(*                                                                         *)
(* Strings that the code inspects character by character (addresses,       *)
(* domains, SMTP status words, server message texts) are sequences of      *)
(* one-character strings, so that the syntax check, the substring tests    *)
(* and the normalisations are computed the way the code computes them.     *)
(***************************************************************************)
EXTENDS Integers, Sequences, FiniteSets, TLC

(***************************************************************************)
(* Python string primitives                                                *)
(***************************************************************************)
LowerLetters ==
    {"a","b","c","d","e","f","g","h","i","j","k","l","m",
     "n","o","p","q","r","s","t","u","v","w","x","y","z"}

UpperLetters ==
    {"A","B","C","D","E","F","G","H","I","J","K","L","M",
     "N","O","P","Q","R","S","T","U","V","W","X","Y","Z"}

DigitChars == {"0","1","2","3","4","5","6","7","8","9"}

AlnumChars == LowerLetters \cup UpperLetters \cup DigitChars

\* the characters str.strip() removes
WhitespaceChars == {" ", "\t", "\n", "\r"}

\* str.lower() on one character
LowerChar(c) ==
    CASE c = "A" -> "a" [] c = "B" -> "b" [] c = "C" -> "c" [] c = "D" -> "d"
      [] c = "E" -> "e" [] c = "F" -> "f" [] c = "G" -> "g" [] c = "H" -> "h"
      [] c = "I" -> "i" [] c = "J" -> "j" [] c = "K" -> "k" [] c = "L" -> "l"
      [] c = "M" -> "m" [] c = "N" -> "n" [] c = "O" -> "o" [] c = "P" -> "p"
      [] c = "Q" -> "q" [] c = "R" -> "r" [] c = "S" -> "s" [] c = "T" -> "t"
      [] c = "U" -> "u" [] c = "V" -> "v" [] c = "W" -> "w" [] c = "X" -> "x"
      [] c = "Y" -> "y" [] c = "Z" -> "z" [] OTHER -> c

\* s.lower()
ToLower(s) == [i \in 1..Len(s) |-> LowerChar(s[i])]

\* s[i:j] with 1-based inclusive bounds; empty when i > j
Slice(s, i, j) == IF i > j THEN <<>> ELSE SubSeq(s, i, j)

\* s.strip()
Strip(s) ==
    LET keep == {i \in 1..Len(s) : s[i] \notin WhitespaceChars}
    IN  IF keep = {} THEN <<>>
        ELSE LET lo == CHOOSE i \in keep : \A k \in keep : i <= k
                 hi == CHOOSE i \in keep : \A k \in keep : i >= k
             IN  SubSeq(s, lo, hi)

\* s.startswith(sub) at position i
MatchAt(s, sub, i) ==
    /\ i + Len(sub) - 1 <= Len(s)
    /\ \A k \in 1..Len(sub) : s[i + k - 1] = sub[k]

\* sub in s
Contains(s, sub) == \E i \in 1..(Len(s) + 1) : MatchAt(s, sub, i)

\* s.count(c) for a single character c
CountChar(s, c) == Cardinality({i \in 1..Len(s) : s[i] = c})

\* s.index(c): position of the first c (the caller made sure there is one)
IndexOf(s, c) == CHOOSE i \in 1..Len(s) : s[i] = c /\ \A k \in 1..(i - 1) : s[k] # c

\* s.replace(c, '') for every c of cs
RemoveChars(s, cs) == SelectSeq(s, LAMBDA c : c \notin cs)

\* s.split(c)
RECURSIVE SplitOn(_, _)
SplitOn(s, c) ==
    IF CountChar(s, c) = 0 THEN <<s>>
    ELSE LET i == IndexOf(s, c)
         IN  <<Slice(s, 1, i - 1)>> \o SplitOn(Slice(s, i + 1, Len(s)), c)

\* c.join(parts)
RECURSIVE JoinWith(_, _)
JoinWith(parts, c) ==
    IF Len(parts) = 0 THEN <<>>
    ELSE IF Len(parts) = 1 THEN parts[1]
    ELSE parts[1] \o <<c>> \o JoinWith(Tail(parts), c)

\* what a regular expression ending in $ is matched against: Python's $ also
\* matches just before one trailing newline
BeforeDollar(s) ==
    IF Len(s) > 0 /\ s[Len(s)] = "\n" THEN Slice(s, 1, Len(s) - 1) ELSE s

(***************************************************************************)
(* fast_validator.py: configuration and static sets                        *)
(***************************************************************************)
MX_CACHE_TTL == 600
CATCHALL_CACHE_TTL == 600
MAX_MX_HOSTS_TO_TRY == 1

GREYLISTING_CODES == {450, 451, 421}
VALID_CODES == {250, 251}
MAILBOX_FULL_CODES == {552, 422, 452}

TRUSTED_PROVIDERS ==
    {<<"g","m","a","i","l",".","c","o","m">>, <<"g","o","o","g","l","e","m","a","i","l",".","c","o","m">>, <<"g","o","o","g","l","e",".","c","o","m">>,
     <<"o","u","t","l","o","o","k",".","c","o","m">>, <<"h","o","t","m","a","i","l",".","c","o","m">>, <<"l","i","v","e",".","c","o","m">>, <<"m","s","n",".","c","o","m">>, <<"o","u","t","l","o","o","k",".","i","n">>,
     <<"h","o","t","m","a","i","l",".","c","o",".","u","k">>, <<"l","i","v","e",".","c","o",".","u","k">>, <<"o","u","t","l","o","o","k",".","c","o",".","u","k">>,
     <<"y","a","h","o","o",".","c","o","m">>, <<"y","a","h","o","o",".","c","o",".","u","k">>, <<"y","a","h","o","o",".","c","o",".","i","n">>, <<"y","a","h","o","o",".","i","n">>,
     <<"y","m","a","i","l",".","c","o","m">>, <<"r","o","c","k","e","t","m","a","i","l",".","c","o","m">>, <<"y","a","h","o","o",".","f","r">>, <<"y","a","h","o","o",".","d","e">>,
     <<"i","c","l","o","u","d",".","c","o","m">>, <<"m","e",".","c","o","m">>, <<"m","a","c",".","c","o","m">>,
     <<"a","o","l",".","c","o","m">>, <<"a","i","m",".","c","o","m">>, <<"v","e","r","i","z","o","n",".","n","e","t">>,
     <<"p","r","o","t","o","n","m","a","i","l",".","c","o","m">>, <<"p","r","o","t","o","n",".","m","e">>, <<"p","m",".","m","e">>, <<"p","r","o","t","o","n","m","a","i","l",".","c","h">>}

\* The three lists are read from line-delimited files at import time
\* (load_domain_list); the files are deployment data, and these are the
\* contents the model is checked with.
DISPOSABLE_DOMAINS == {<<"t","e","m","p",".","i","o">>, <<"d","r","o","p","m","a","i","l",".","m","e">>}
BLACKLIST_DOMAINS == {<<"b","a","d",".","b","i","z">>, <<"b","a","d",".","t","e","m","p",".","i","o">>}
SPAMTRAP_DOMAINS == {<<"s","i","n","k",".","n","e","t">>}

ROLE_EMAILS ==
    {<<"a","d","m","i","n">>, <<"a","d","m","i","n","i","s","t","r","a","t","o","r">>, <<"r","o","o","t">>, <<"s","y","s","a","d","m","i","n">>, <<"w","e","b","m","a","s","t","e","r">>, <<"h","o","s","t","m","a","s","t","e","r">>, <<"p","o","s","t","m","a","s","t","e","r">>,
     <<"s","u","p","p","o","r","t">>, <<"h","e","l","p">>, <<"h","e","l","p","d","e","s","k">>, <<"s","e","r","v","i","c","e">>, <<"c","u","s","t","o","m","e","r">>, <<"c","u","s","t","o","m","e","r","s","e","r","v","i","c","e">>, <<"c","u","s","t","o","m","e","r","s","u","p","p","o","r","t">>,
     <<"s","a","l","e","s">>, <<"m","a","r","k","e","t","i","n","g">>, <<"i","n","f","o">>, <<"c","o","n","t","a","c","t">>, <<"e","n","q","u","i","r","y">>, <<"i","n","q","u","i","r","y">>, <<"t","e","a","m">>,
     <<"b","i","l","l","i","n","g">>, <<"a","c","c","o","u","n","t","s">>, <<"a","c","c","o","u","n","t","i","n","g">>, <<"f","i","n","a","n","c","e">>, <<"p","a","y","m","e","n","t">>, <<"p","a","y","m","e","n","t","s">>, <<"i","n","v","o","i","c","e">>, <<"i","n","v","o","i","c","e","s">>,
     <<"o","f","f","i","c","e">>, <<"r","e","c","e","p","t","i","o","n">>, <<"l","e","g","a","l">>, <<"c","o","m","p","l","i","a","n","c","e">>, <<"p","r","i","v","a","c","y">>, <<"s","e","c","u","r","i","t","y">>,
     <<"n","o","r","e","p","l","y">>, <<"n","o","-","r","e","p","l","y">>, <<"d","o","n","o","t","r","e","p","l","y">>, <<"d","o","-","n","o","t","-","r","e","p","l","y">>, <<"m","a","i","l","e","r","-","d","a","e","m","o","n">>,
     <<"a","b","u","s","e">>, <<"f","e","e","d","b","a","c","k">>, <<"p","r","e","s","s">>, <<"m","e","d","i","a">>, <<"n","e","w","s">>, <<"p","r">>, <<"p","u","b","l","i","c">>,
     <<"h","r">>, <<"j","o","b","s">>, <<"c","a","r","e","e","r","s">>, <<"r","e","c","r","u","i","t","m","e","n","t">>, <<"h","i","r","i","n","g">>, <<"a","p","p","l","y">>, <<"a","p","p","l","i","c","a","t","i","o","n">>,
     <<"d","e","v">>, <<"d","e","v","e","l","o","p","e","r">>, <<"i","t">>, <<"t","e","c","h">>, <<"t","e","c","h","n","i","c","a","l">>, <<"e","n","g","i","n","e","e","r","i","n","g">>,
     <<"o","r","d","e","r","s">>, <<"o","r","d","e","r">>, <<"s","h","o","p">>, <<"s","t","o","r","e">>, <<"r","e","t","u","r","n","s">>, <<"r","e","f","u","n","d","s">>, <<"r","e","s","e","r","v","a","t","i","o","n","s">>}

(***************************************************************************)
(* fast_validator.py: syntax validation                                    *)
(***************************************************************************)
\* the character class of _LOCAL_PATTERN (its backquote cannot be written in
\* a string here; no address of the model holds one)
AtextChars ==
    AlnumChars \cup {"!","#","$","%","&","'","*","+","/","=","?","^","_","{","|","}","~","-"}

\* ^[atext]+(?:\.[atext]+)*$
LocalPatternMatches(s) ==
    LET t == BeforeDollar(s)
        atoms == SplitOn(t, ".")
    IN  \A i \in 1..Len(atoms) :
            /\ Len(atoms[i]) > 0
            /\ \A k \in 1..Len(atoms[i]) : atoms[i][k] \in AtextChars

\* [a-zA-Z0-9](?:[a-zA-Z0-9-]*[a-zA-Z0-9])?
IsDomainLabel(l) ==
    /\ Len(l) > 0
    /\ l[1] \in AlnumChars
    /\ l[Len(l)] \in AlnumChars
    /\ \A k \in 1..Len(l) : l[k] \in AlnumChars \cup {"-"}

\* ^(?:label\.)+label$
DomainPatternMatches(s) ==
    LET t == BeforeDollar(s)
        labels == SplitOn(t, ".")
    IN  /\ Len(labels) >= 2
        /\ \A i \in 1..Len(labels) : IsDomainLabel(labels[i])

SyntaxFail(reason) == [valid |-> FALSE, reason |-> reason, local |-> <<>>, domain |-> <<>>]

\* (variant of check_syntax_fast: any string with an @ between two
\* non-empty parts passes)
check_syntax_fast_AnyAt(email) ==
    LET at_pos == IndexOf(email, "@")
    IN  IF CountChar(email, "@") = 0 \/ at_pos = 1 \/ at_pos = Len(email)
          THEN SyntaxFail("Invalid @ symbol")
          ELSE [valid |-> TRUE, reason |-> "Valid",
                local |-> Slice(email, 1, at_pos - 1),
                domain |-> Slice(email, at_pos + 1, Len(email))]

check_syntax_fast(email) ==
    IF Len(email) = 0 THEN SyntaxFail("Empty or invalid email")
    ELSE IF Len(email) > 320 THEN SyntaxFail("Email too long")
    ELSE IF CountChar(email, "@") # 1 THEN SyntaxFail("Invalid @ symbol")
    ELSE
      LET at_pos == IndexOf(email, "@")
          local_part == Slice(email, 1, at_pos - 1)
          domain == Slice(email, at_pos + 1, Len(email))
      IN  IF Len(local_part) = 0 \/ Len(local_part) > 64
            THEN SyntaxFail("Invalid local part")
          ELSE IF Len(domain) = 0 \/ Len(domain) > 255
            THEN SyntaxFail("Invalid domain")
          ELSE IF \/ Contains(email, <<".",".">>)
                  \/ local_part[1] = "."
                  \/ local_part[Len(local_part)] = "."
            THEN SyntaxFail("Invalid dots")
          ELSE IF domain[1] = "." \/ domain[Len(domain)] = "."
            THEN SyntaxFail("Invalid domain dots")
          ELSE IF ~LocalPatternMatches(local_part)
            THEN SyntaxFail("Invalid local characters")
          ELSE IF ~DomainPatternMatches(domain)
            THEN SyntaxFail("Invalid domain format")
          ELSE LET parts == SplitOn(domain, ".")
                   tld == parts[Len(parts)]
               IN  IF Len(tld) < 2 THEN SyntaxFail("Invalid TLD")
                   ELSE [valid |-> TRUE, reason |-> "Valid",
                         local |-> local_part, domain |-> domain]

(***************************************************************************)
(* fast_validator.py: reputation checks                                    *)
(***************************************************************************)
disposable_patterns ==
    {<<"t","e","m","p","m","a","i","l">>, <<"t","e","m","p","-","m","a","i","l">>, <<"t","m","p","m","a","i","l">>, <<"g","u","e","r","r","i","l","l","a">>, <<"m","a","i","l","i","n","a","t","o","r">>,
     <<"t","h","r","o","w","a","w","a","y">>, <<"d","i","s","p","o","s","a","b","l","e">>, <<"f","a","k","e","i","n","b","o","x">>, <<"t","r","a","s","h","m","a","i","l">>, <<"y","o","p","m","a","i","l">>,
     <<"1","0","m","i","n","u","t","e">>, <<"1","0","m","i","n">>, <<"m","i","n","u","t","e","m","a","i","l">>, <<"s","h","a","r","k","l","a","s","e","r","s">>, <<"b","u","r","n","e","r","m","a","i","l">>,
     <<"m","a","i","l","d","r","o","p">>, <<"g","e","t","a","i","r","m","a","i","l">>, <<"g","e","t","n","a","d","a">>, <<"e","m","a","i","l","o","n","d","e","c","k">>, <<"t","e","m","p","r">>,
     <<"s","p","a","m","g","o","u","r","m","e","t">>, <<"m","a","i","l","n","e","s","i","a">>, <<"m","y","t","r","a","s","h","m","a","i","l">>, <<"g","u","e","r","r","i","l","l","a","m","a","i","l">>}

check_disposable_fast(domain) ==
    LET parts == SplitOn(domain, ".")
        n == Len(parts)
    IN  \/ domain \in DISPOSABLE_DOMAINS
        \/ /\ n > 2
           /\ \E i \in 2..(n - 1) :
                  JoinWith(SubSeq(parts, i, n), ".") \in DISPOSABLE_DOMAINS
        \/ \E p \in disposable_patterns : Contains(ToLower(domain), p)

check_blacklist_fast(domain) == domain \in BLACKLIST_DOMAINS

spamtrap_patterns == {<<"s","p","a","m","t","r","a","p">>, <<"h","o","n","e","y","p","o","t">>, <<"t","r","a","p">>, <<"a","b","u","s","e">>, <<"b","l","a","c","k","h","o","l","e">>}

check_spamtrap_fast(email, domain) ==
    \/ domain \in SPAMTRAP_DOMAINS
    \/ \E p \in spamtrap_patterns : Contains(ToLower(email), p)

check_role_fast(local_part) ==
    LET normalized == RemoveChars(local_part, {".", "-", "_"})
    IN  local_part \in ROLE_EMAILS \/ normalized \in ROLE_EMAILS

\* (variant of is_trusted_provider: the provider list never consulted)
is_trusted_provider_Never(domain) == FALSE

is_trusted_provider(domain) == domain \in TRUSTED_PROVIDERS

\* local_part.split('+')[0]
BasePart(local_part) == SplitOn(local_part, "+")[1]

\* str.isalnum(): not empty and every character alphanumeric
IsAlnum(s) == Len(s) > 0 /\ \A k \in 1..Len(s) : s[k] \in AlnumChars

validate_gmail_username(local_part) ==
    LET base_part == BasePart(local_part)
        clean == RemoveChars(base_part, {"."})
    IN  /\ ~(Len(clean) < 6 \/ Len(clean) > 30)
        /\ IsAlnum(clean)
        /\ ~(Len(base_part) > 0 /\ (base_part[1] = "." \/ base_part[Len(base_part)] = "."))
        /\ ~Contains(base_part, <<".",".">>)

validate_yahoo_username(local_part) ==
    LET base_part == BasePart(local_part)
    IN  /\ ~(Len(base_part) < 4 \/ Len(base_part) > 32)
        /\ base_part[1] \in LowerLetters \cup UpperLetters
        /\ \A k \in 1..Len(base_part) :
               LowerChar(base_part[k]) \in LowerLetters \cup DigitChars \cup {"_", "."}

validate_outlook_username(local_part) ==
    LET base_part == BasePart(local_part)
    IN  /\ ~(Len(base_part) < 1 \/ Len(base_part) > 64)
        /\ base_part[1] \in LowerLetters \cup UpperLetters
        /\ \A k \in 1..Len(base_part) :
               LowerChar(base_part[k]) \in LowerLetters \cup DigitChars \cup {".", "_", "-"}

\* the provider dispatch of _validate_single (substring tests on the domain)
username_valid(local_part, domain) ==
    IF Contains(domain, <<"g","m","a","i","l">>) \/ Contains(domain, <<"g","o","o","g","l","e">>)
      THEN validate_gmail_username(local_part)
    ELSE IF Contains(domain, <<"y","a","h","o","o">>) \/ Contains(domain, <<"y","m","a","i","l">>)
      THEN validate_yahoo_username(local_part)
    ELSE IF Contains(domain, <<"o","u","t","l","o","o","k">>) \/ Contains(domain, <<"h","o","t","m","a","i","l">>) \/ Contains(domain, <<"l","i","v","e">>)
      THEN validate_outlook_username(local_part)
    ELSE TRUE

(***************************************************************************)
(* fast_validator.py: FastSMTPVerifier                                     *)
(***************************************************************************)
\* str(n) for n >= 0
RECURSIVE DecimalDigits(_)
DecimalDigits(n) ==
    LET d == <<"0","1","2","3","4","5","6","7","8","9">>[(n % 10) + 1]
    IN  IF n < 10 THEN <<d>> ELSE DecimalDigits(n \div 10) \o <<d>>

ProbeResult(valid, status, code, greylisted) ==
    [valid |-> valid, status |-> status, code |-> code, greylisted |-> greylisted]

policy_keywords == {<<"p","o","l","i","c","y">>, <<"b","l","o","c","k","e","d">>, <<"s","p","a","m">>, <<"r","e","j","e","c","t","e","d">>}

_interpret_code(code, message) ==
    LET message_lower == ToLower(message)
    IN  IF code \in VALID_CODES
          THEN ProbeResult(TRUE, <<"d","e","l","i","v","e","r","a","b","l","e">>, code, FALSE)
        ELSE IF code = 550
          THEN IF \E kw \in policy_keywords : Contains(message_lower, kw)
                 THEN ProbeResult(FALSE, <<"p","o","l","i","c","y","_","r","e","j","e","c","t">>, code, FALSE)
                 ELSE ProbeResult(FALSE, <<"m","a","i","l","b","o","x","_","n","o","t","_","f","o","u","n","d">>, code, FALSE)
        ELSE IF code = 551
          THEN ProbeResult(FALSE, <<"u","s","e","r","_","n","o","t","_","l","o","c","a","l">>, code, FALSE)
        ELSE IF code = 553
          THEN ProbeResult(FALSE, <<"m","a","i","l","b","o","x","_","u","n","a","v","a","i","l","a","b","l","e">>, code, FALSE)
        ELSE IF code = 554
          THEN ProbeResult(FALSE, <<"m","a","i","l","b","o","x","_","d","i","s","a","b","l","e","d">>, code, FALSE)
        ELSE IF code \in MAILBOX_FULL_CODES
          THEN ProbeResult(FALSE, <<"i","n","b","o","x","_","f","u","l","l">>, code, FALSE)
        ELSE IF code \in GREYLISTING_CODES
          THEN ProbeResult(FALSE, <<"t","e","m","p","_","f","a","i","l","u","r","e">>, code, TRUE)
        ELSE IF code = 452
          THEN IF Contains(message_lower, <<"t","o","o"," ","m","a","n","y">>) \/ Contains(message_lower, <<"r","a","t","e">>)
                 THEN ProbeResult(FALSE, <<"r","a","t","e","_","l","i","m","i","t","e","d">>, code, FALSE)
                 ELSE ProbeResult(FALSE, <<"i","n","b","o","x","_","f","u","l","l">>, code, FALSE)
        ELSE ProbeResult(FALSE, <<"c","o","d","e","_">> \o DecimalDigits(code), code, FALSE)

\* What one SMTP session with one host comes to.  The remote host and the
\* network decide it:
\*   connect_timeout   smtp.connect() timed out
\*   connect_failed    smtp.connect() raised SMTPConnectError
\*   connect_error     smtp.connect() raised another exception
\*   command_timeout   EHLO/HELO, MAIL FROM or RCPT TO timed out
\*   command_error     a command raised another exception
\*   response          RCPT TO was answered with (code, msg)
SessionKinds ==
    {"connect_timeout", "connect_failed", "connect_error",
     "command_timeout", "command_error", "response"}

Failure(kind) == [kind |-> kind, code |-> 0, msg |-> <<>>]
Response(code, msg) == [kind |-> "response", code |-> code, msg |-> msg]

\* FastSMTPVerifier._verify_single_mx
_verify_single_mx(outcome) ==
    CASE outcome.kind = "connect_timeout" -> ProbeResult(FALSE, <<"c","o","n","n","e","c","t","_","t","i","m","e","o","u","t">>, 0, FALSE)
      [] outcome.kind = "connect_failed"  -> ProbeResult(FALSE, <<"c","o","n","n","e","c","t","_","f","a","i","l","e","d">>, 0, FALSE)
      [] outcome.kind = "connect_error"   -> ProbeResult(FALSE, <<"e","r","r","o","r">>, 0, FALSE)
      [] outcome.kind = "command_timeout" -> ProbeResult(FALSE, <<"t","i","m","e","o","u","t">>, 0, FALSE)
      [] outcome.kind = "command_error"   -> ProbeResult(FALSE, <<"e","r","r","o","r">>, 0, FALSE)
      [] outcome.kind = "response"        -> _interpret_code(outcome.code, outcome.msg)

\* One entry of the log of recipient probes: the host (its index in the MX
\* list), the attempt on that host, and what the session came to.
ProbeEntry(host, attempt, outcome) ==
    [host |-> host, attempt |-> attempt, kind |-> outcome.kind, code |-> outcome.code]

\* The body of the "for mx_host in hosts_to_try" loop of verify_smtp, from
\* host i on.  plan[i][k] is what the k-th session with host i comes to.
\* Returns the value verify_smtp returns and the sessions it made.
RECURSIVE VerifyHosts(_, _, _, _, _, _)
VerifyHosts(i, n, retry_greylisting, plan, last_result, log) ==
    IF i > n
      THEN [result |-> last_result, log |-> log]
    ELSE
      LET result == _verify_single_mx(plan[i][1])
          log1 == Append(log, ProbeEntry(i, 1, plan[i][1]))
          retry_result == _verify_single_mx(plan[i][2])
          log2 == Append(log1, ProbeEntry(i, 2, plan[i][2]))
          retried == result.code \in GREYLISTING_CODES /\ retry_greylisting
          \* the rest of the loop body, after the greylisting block
          rest(last, lg) ==
              IF result.status \in {<<"c","o","n","n","e","c","t","_","t","i","m","e","o","u","t">>, <<"c","o","n","n","e","c","t","_","f","a","i","l","e","d">>, <<"e","r","r","o","r">>}
                THEN VerifyHosts(i + 1, n, retry_greylisting, plan, last, lg)
              ELSE IF result.code > 0
                THEN [result |-> result, log |-> lg]
              ELSE VerifyHosts(i + 1, n, retry_greylisting, plan, last, lg)
      IN  IF result.code \in VALID_CODES
            THEN [result |-> result, log |-> log1]
          ELSE IF result.code \in {550, 551, 553, 554}
            THEN [result |-> result, log |-> log1]
          ELSE IF retried
            THEN IF retry_result.code \in VALID_CODES
                   THEN [result |-> [retry_result EXCEPT !.greylisted = TRUE], log |-> log2]
                 ELSE IF retry_result.code \in GREYLISTING_CODES
                   THEN [result |-> ProbeResult(FALSE, <<"g","r","e","y","l","i","s","t","e","d">>, retry_result.code, TRUE),
                         log |-> log2]
                 ELSE rest(retry_result, log2)
          ELSE rest(result, log1)

Min(a, b) == IF a < b THEN a ELSE b

\* verify_smtp going through every host of the list
verify_smtp_EveryHost(mx_hosts, retry_greylisting, plan) ==
    IF Len(mx_hosts) = 0
      THEN [result |-> ProbeResult(FALSE, <<"n","o","_","m","x">>, 0, FALSE), log |-> <<>>]
    ELSE VerifyHosts(1, Len(mx_hosts), retry_greylisting,
                     plan, ProbeResult(FALSE, <<"a","l","l","_","m","x","_","f","a","i","l","e","d">>, 0, FALSE), <<>>)

\* FastSMTPVerifier.verify_smtp
verify_smtp(mx_hosts, retry_greylisting, plan) ==
    IF Len(mx_hosts) = 0
      THEN [result |-> ProbeResult(FALSE, <<"n","o","_","m","x">>, 0, FALSE), log |-> <<>>]
    ELSE VerifyHosts(1, Min(Len(mx_hosts), MAX_MX_HOSTS_TO_TRY), retry_greylisting,
                     plan, ProbeResult(FALSE, <<"a","l","l","_","m","x","_","f","a","i","l","e","d">>, 0, FALSE), <<>>)

(***************************************************************************)
(* scoring.py                                                              *)
(***************************************************************************)
MAX_RAW_SCORE == 110

\* calculate_score: the normalised score of the checks
calculate_score(checks) ==
    LET raw_score ==
              (IF checks.syntax_valid THEN 10 ELSE 0)
            + (IF checks.domain_exists THEN 15 ELSE 0)
            + (IF checks.mx_valid THEN 20 ELSE 0)
            + (IF ~checks.is_disposable THEN 10 ELSE 0)
            + (IF ~checks.is_role_based THEN 10 ELSE 0)
            + (IF ~checks.is_blacklisted THEN 15 ELSE 0)
            + (IF checks.smtp_verified THEN 30 ELSE 0)
            + (IF checks.is_catch_all THEN -20 ELSE 0)
            + (IF checks.is_inbox_full THEN -10 ELSE 0)
            + (IF checks.is_disabled THEN -30 ELSE 0)
    IN  \* max(0, min(100, int(raw / MAX_RAW_SCORE * 100)))
        IF raw_score <= 0 THEN 0 ELSE Min(100, (raw_score * 100) \div MAX_RAW_SCORE)

get_quality_grade(score) ==
    IF score >= 90 THEN "A"
    ELSE IF score >= 75 THEN "B"
    ELSE IF score >= 60 THEN "C"
    ELSE IF score >= 45 THEN "D"
    ELSE "F"

get_verdict(score, is_valid) ==
    IF ~is_valid THEN "INVALID"
    ELSE IF score >= 70 THEN "VALID"
    ELSE IF score >= 45 THEN "RISKY"
    ELSE "INVALID"

calculate_full_score(result) ==
    LET checks ==
            [syntax_valid   |-> result.syntax_valid = "Valid",
             domain_exists  |-> result.domain_valid = "Valid",
             mx_valid       |-> result.mx_record_exists = "Valid" \/ result.mx = "Valid",
             is_disposable  |-> result.is_disposable,
             is_role_based  |-> result.is_role_based,
             is_blacklisted |-> result.is_blacklisted,
             smtp_verified  |-> result.smtp_valid = "Valid" \/ result.smtp = "Valid",
             is_catch_all   |-> result.is_catch_all,
             is_inbox_full  |-> result.is_inbox_full,
             is_disabled    |-> result.is_disabled]
        score == calculate_score(checks)
        is_valid == result.is_valid \/ result.status = "Valid"
    IN  [result EXCEPT !.deliverability_score = score,
                       !.quality_grade = get_quality_grade(score),
                       !.verdict = get_verdict(score, is_valid)]

(***************************************************************************)
(* fast_validator.py: FastCache                                            *)
(*                                                                         *)
(* A cache is the dict _cache in insertion order: a sequence of entries    *)
(* [key, value, expires_at] with distinct keys.                            *)
(***************************************************************************)
MX_CACHE_MAX_SIZE == 50000
CATCHALL_CACHE_MAX_SIZE == 10000

CacheHas(cache, key) == \E i \in 1..Len(cache) : cache[i].key = key
CacheEntryOf(cache, key) == cache[CHOOSE i \in 1..Len(cache) : cache[i].key = key]
CacheWithout(cache, key) == SelectSeq(cache, LAMBDA e : e.key # key)

\* FastCache.get serving an entry at the very instant of its expiry
FastCacheGet_AtExpiry(cache, key, time) ==
    IF CacheHas(cache, key)
      THEN LET entry == CacheEntryOf(cache, key)
           IN  IF time <= entry.expires_at
                 THEN [hit |-> TRUE, value |-> entry.value, cache |-> cache]
                 ELSE [hit |-> FALSE, value |-> <<>>, cache |-> CacheWithout(cache, key)]
      ELSE [hit |-> FALSE, value |-> <<>>, cache |-> cache]

\* FastCache.get: the value, or None; an expired entry is deleted.
\* Returns [hit, value, cache], cache being the dict after the call.
FastCacheGet(cache, key, time) ==
    IF CacheHas(cache, key)
      THEN LET entry == CacheEntryOf(cache, key)
           IN  IF time < entry.expires_at
                 THEN [hit |-> TRUE, value |-> entry.value, cache |-> cache]
                 ELSE [hit |-> FALSE, value |-> <<>>, cache |-> CacheWithout(cache, key)]
      ELSE [hit |-> FALSE, value |-> <<>>, cache |-> cache]

\* FastCache.set: the dict after the call
FastCacheSet(cache, max_size, key, value, ttl, time) ==
    LET evicted == IF Len(cache) >= max_size
                     THEN Slice(cache, (max_size \div 10) + 1, Len(cache))
                     ELSE cache
        entry == [key |-> key, value |-> value, expires_at |-> time + ttl]
    IN  IF CacheHas(evicted, key)
          THEN [i \in 1..Len(evicted) |->
                    IF evicted[i].key = key THEN entry ELSE evicted[i]]
          ELSE Append(evicted, entry)

(***************************************************************************)
(* fast_validator.py: FastDNSResolver.resolve_mx                           *)
(***************************************************************************)
\* sorted(result, key=lambda x: x.priority): a stable insertion sort
RECURSIVE InsertByPriority(_, _)
InsertByPriority(sorted, r) ==
    IF Len(sorted) = 0 THEN <<r>>
    ELSE IF r.priority < sorted[1].priority THEN <<r>> \o sorted
    ELSE <<sorted[1]>> \o InsertByPriority(Tail(sorted), r)

RECURSIVE SortByPriority(_)
SortByPriority(records) ==
    IF Len(records) = 0 THEN <<>>
    ELSE InsertByPriority(SortByPriority(Slice(records, 1, Len(records) - 1)),
                          records[Len(records)])

\* s.rstrip('.')
RECURSIVE RStripDot(_)
RStripDot(s) ==
    IF Len(s) > 0 /\ s[Len(s)] = "." THEN RStripDot(Slice(s, 1, Len(s) - 1)) ELSE s

\* [str(mx.host).rstrip('.') for mx in sorted(result, key=priority)]
MxList(records) ==
    LET mx_hosts == SortByPriority(records)
    IN  [i \in 1..Len(mx_hosts) |-> RStripDot(mx_hosts[i].host)]

\* The completion of the MX query of resolve_mx: the list returned and the
\* time-to-live it is cached with.
ResolvedMx(answer) ==
    IF answer.kind = "answer"
      THEN [mx_list |-> MxList(answer.records), ttl |-> MX_CACHE_TTL]
      ELSE [mx_list |-> <<>>, ttl |-> MX_CACHE_TTL \div 2]

(***************************************************************************)
(* Bounds of the model and the inputs it is checked with                   *)
(***************************************************************************)
\* validations run one after the other on the same validator (shared caches)
MaxValidations == 2
\* the clock runs from 0 to MaxClock in steps of TickStep seconds
MaxClock == 600
TickStep == 300
\* the longest MX answer the resolver receives
MaxMxRecords == 2

\* input addresses, as the caller passes them (before strip/lower)
RawEmails ==
    {<<"j","o","h","n","d","o","e","@","e","x","a","m","p","l","e",".","o","r","g">>, <<"a","d","m","i","n","@","e","x","a","m","p","l","e",".","o","r","g">>, <<" ","J","o","h","n","D","o","e","@","E","x","a","m","p","l","e",".","O","R","G"," ">>,
     <<"j","o","h","n","d","o","e","@","g","m","a","i","l",".","c","o","m">>, <<"a","d","m","i","n","@","g","m","a","i","l",".","c","o","m">>, <<"t","r","a","p","p","e","r","1","@","g","m","a","i","l",".","c","o","m">>, <<"j","d","@","g","m","a","i","l",".","c","o","m">>,
     <<"j","o","h","n","d","o","e","@","t","e","m","p",".","i","o">>, <<"a","d","m","i","n","@","x",".","t","e","m","p",".","i","o">>, <<"j","o","h","n","d","o","e","@","b","a","d",".","b","i","z">>, <<"j","o","h","n","d","o","e","@","b","a","d",".","t","e","m","p",".","i","o">>,
     <<"j","o","h","n","d","o","e","@","s","i","n","k",".","n","e","t">>, <<"j","o","h","n",".",".","d","o","e","@","t","e","m","p",".","i","o">>, <<"j","o","h","n","d","o","e","@","@","t","e","m","p",".","i","o">>, <<"a","d","m","i","n","@","t","e","m","p",".","i">>, <<>>}

\* MX records a DNS answer may carry, in the order of the answer
MxRecords ==
    {[priority |-> 10, host |-> <<"m","x","1",".">>], [priority |-> 20, host |-> <<"m","x","2">>]}

MxRecordLists ==
    {rs \in UNION {[1..n -> MxRecords] : n \in 0..MaxMxRecords} :
        \A i, j \in 1..Len(rs) : i # j => rs[i].host # rs[j].host}

DnsAnswers ==
    {[kind |-> "answer", records |-> rs] : rs \in MxRecordLists}
      \cup {[kind |-> "timeout", records |-> <<>>], [kind |-> "error", records |-> <<>>]}

\* SMTP reply codes and message texts the remote hosts answer with
SmtpCodes == {250, 251, 421, 422, 450, 451, 452, 500, 550, 551, 552, 553, 554}
SmtpMessages == {<<>>, <<"B","l","o","c","k","e","d"," ","b","y"," ","p","o","l","i","c","y">>}

SessionOutcomes ==
    {Failure(k) : k \in SessionKinds \ {"response"}}
      \cup {Response(c, m) : c \in SmtpCodes, m \in SmtpMessages}

IsGreylistOutcome(o) == o.kind = "response" /\ o.code \in GREYLISTING_CODES

\* what a host answers to a second session after a greylisting reply
RetryOutcomes ==
    {Response(250, <<>>), Response(450, <<>>), Response(550, <<>>), Response(552, <<>>),
     Failure("command_timeout")}

\* What a host answers to the successive sessions of one address: the first
\* session, and the retry session where a first greylisting reply makes a
\* retry conceivable.
HostPlans ==
    {<<o>> : o \in {x \in SessionOutcomes : ~IsGreylistOutcome(x)}}
      \cup {<<o1, o2>> : o1 \in {x \in SessionOutcomes : IsGreylistOutcome(x)},
                         o2 \in RetryOutcomes}

\* what a host answers to the session of a synthetic address
SyntheticOutcomes ==
    {Response(250, <<>>), Response(251, <<>>), Response(550, <<>>), Response(450, <<>>),
     Failure("connect_timeout")}

\* a plan without the message texts, as the state keeps it
PlanSummary(plan) ==
    [i \in DOMAIN plan |->
        [k \in DOMAIN plan[i] |-> [kind |-> plan[i][k].kind, code |-> plan[i][k].code]]]

(***************************************************************************)
(* State                                                                   *)
(***************************************************************************)
VARIABLES
    now,              \* time.time(), in seconds
    \* the fast pipeline (fast_validator.py)
    mx_cache,         \* fast_validator._mx_cache
    catchall_cache,   \* fast_validator._catchall_cache
    f_runs,           \* validations started so far
    f_pc,             \* where FastEmailValidator._validate_single stands
    f_raw,            \* the address as passed by the caller
    f_result,         \* the result dict of the validation
    f_mx_hosts,       \* mx_hosts of the validation
    f_dns,            \* MX queries sent by the validation
    f_plan,           \* what the probed hosts answer to the address (PlanSummary)
    f_log,            \* SMTP sessions made for the address itself
    f_ca_log,         \* SMTP sessions made for the two synthetic addresses
    \* the default pipeline (async_validator.py)
    a_mx_cache,       \* AsyncEmailValidator._mx_cache._cache
    a_pools,          \* AsyncEmailValidator._connection_pool._pools
    a_last_request,   \* AsyncEmailValidator._throttler._last_request
    a_runs,           \* validations started so far
    a_pc,             \* where AsyncEmailValidator._validate_single stands
    a_raw,            \* the address as passed by the caller
    a_result,         \* the result dict of the validation
    a_mx_hosts,       \* mx_hosts of the validation
    a_dns,            \* MX queries sent by the validation
    a_log,            \* SMTP sessions of the validation, one per host tried
    \* the strict verifier (strict_validator.py)
    s_permits,        \* free permits of StrictSMTPVerifier._semaphore
    s_runs,           \* verify calls started so far
    s_pc,             \* where StrictSMTPVerifier.verify stands
    s_hosts,          \* hosts_to_try of the call
    s_tasks,          \* the _verify_single_mx tasks of the call, one per host
    s_best,           \* best_result of the call
    s_result,         \* the value the call returned
    s_combined_cache, \* StrictDNSResolver._combined_cache
    \* a validate_bulk call of one of the three validators
    b_which,          \* the validator called: "fast", "async" or "strict"
    b_pc,             \* where validate_bulk stands
    b_emails,         \* the list the caller passed
    b_unique,         \* unique_emails
    b_pending,        \* domains whose pre-resolution has not completed
    b_dns_results,    \* dns_results of the strict validate_bulk
    b_tasks,          \* the per-address tasks handed to asyncio.gather
    b_queries,        \* MX resolutions sent to the resolver during the call
    b_results,        \* the list validate_bulk returned
    \* calls of the resolvers (FastDNSResolver.resolve_mx,
    \* StrictDNSResolver.check_domain_and_mx)
    d_pending,        \* the calls waiting for their DNS query
    d_log,            \* the calls that returned, in the order of their return
    \* one address validated again by FastEmailValidator.validate_email
    i_pc,             \* where the validation stands
    i_run,            \* validations started
    i_raw,            \* the address
    i_start,          \* when the validation started
    i_result,         \* the result dict of the validation
    i_mx_hosts,       \* the MX list of the validation
    i_world,          \* what the DNS and the hosts answer to the address
    i_first,          \* status and score the validation before returned
    i_hits,           \* cache hits of the validation
    \* scoring_engine.classify_status and scoring.calculate_full_score applied
    c_phases,         \* the phase results p1..p4 passed to classify_status
    c_status,         \* (status, sub_status) returned last
    c_first,          \* (status, sub_status) returned for the first score
    c_scored,         \* status of a result before and after calculate_full_score
    \* the syntax checks applied to a string
    x_email,          \* the string
    x_fast,           \* what check_syntax_fast returned for it
    x_strict,         \* what validate_syntax returned for it
    \* concurrent callers of one domain's connection pool: _check_smtp on
    \* SMTPConnectionPool of async_validator.py, or verify_email of
    \* SMTPConnectionPool of smtp_pool.py
    p_which,          \* the pool exercised: "none" yet, "async" or "domain"
    p_pool,           \* the pool of the domain
    p_lock,           \* the caller inside the pool's lock, or 0
    p_open,           \* the sessions connected and not closed
    p_call,           \* per caller: where its call stands and what it holds
    p_calls,          \* calls started
    \* concurrent callers of DomainThrottler.acquire; times in milliseconds
    t_clock,          \* time.time()
    t_last,           \* _last_request: domain -> time, 0 for no entry
    t_lock,           \* _locks: domain -> the caller inside the lock, or 0
    t_call,           \* per caller: where its acquire stands
    t_returns,        \* domain -> the instants at which acquire returned
    t_acquires,       \* calls of acquire started
    \* concurrent calls of StrictSMTPVerifier.verify, counted by where they
    \* stand; a session is "connecting" until smtp.connect() returns and
    \* "open" from then until smtp.quit() is over
    v_permits,        \* the value of the semaphore
    v_started,        \* calls of verify started
    v_one_c,          \* calls inside the semaphore, one session left, connecting
    v_one_o,          \* calls inside the semaphore, one session left, open
    v_two_cc,         \* calls racing two sessions, both connecting
    v_two_co,         \* calls racing two sessions, one connecting, one open
    v_two_oo,         \* calls racing two sessions, both open
    v_cancelled,      \* open sessions of cancelled tasks, not closed yet
    \* FastSMTPVerifier.verify_smtp applied to one input
    g_hosts,          \* mx_hosts
    g_retry,          \* retry_greylisting
    g_plan,           \* what each host answers to the first and to a second session
    g_out,            \* <<>> or <<[result, log]>>: what verify_smtp returned
    \* the four caches read and written on their own
    k_cache,          \* cache name -> its entries [key, value, expires_at]
    k_read,           \* <<>> or <<the latest read>>
    k_pending,        \* the <<cache, key>> being resolved after a miss
    k_reads,          \* reads made
    \* a pool used by any number of callers, its sessions counted
    q_which,          \* "none", or the pool the behaviour exercises
    q_in_use,         \* async pool: creation time -> entries in use
    q_free,           \* async pool: creation time -> entries not in use
    q_lock,           \* "free", or what the holder of the pool's lock awaits
    q_idle,           \* per-domain pool: len(self.pool)
    q_held,           \* per-domain pool: sessions acquired and not yet released
    \* a pool whose sessions the servers may drop
    h_which,          \* "none", or the pool the behaviour exercises
    h_pool,           \* the pool: idle sessions (smtp_pool.py) or entries (async)
    h_alive,          \* the sessions whose server still answers
    h_open,           \* the sessions connected and not closed by the program
    h_held,           \* the sessions callers hold
    h_acq,            \* <<>> or <<what the _acquire_connection under way awaits>>
    h_failed,         \* the sessions that failed a liveness check
    h_out,            \* <<>> or <<the latest hand-out>>
    h_made,           \* sessions opened so far
    \* callers of the throttler and of the async pool on several domains
    o_call,           \* caller -> where its _check_smtp stands, and its domain
    o_tlock,          \* DomainThrottler._locks: key -> the caller inside, or 0
    o_plock,          \* SMTPConnectionPool._locks: key -> the caller inside, or 0
    o_recent,         \* the domains whose last request is less than an interval old
    o_pools,          \* SMTPConnectionPool._pools
    o_calls,          \* calls of _check_smtp started
    sem_total,        \* the validations validate_bulk gathered, 0 before it is called
    sem_waiting,      \* validations waiting for a permit of FastEmailValidator._semaphore
    sem_queued,       \* validations holding one that are not in verify_smtp yet
    sem_probing,      \* validations inside verify_smtp, holding the domain's permit
    sem_pairs,        \* validations in check_catchall, by the positions of their two probes
    sem_done,         \* validations that returned
    sem_valid,        \* the addresses left that the mail exchanger accepts
    sem_cached,       \* _catchall_cache holds the domain
    u_keys,           \* the keys of SMTPConnectionPool._pools, in insertion order
    u_pools,          \* SMTPConnectionPool._pools: key -> the list of its entries
    u_lock,           \* SMTPConnectionPool._locks: key -> what its holder awaits
    u_pc,             \* where close_all stands
    u_it,             \* the iterators of close_all over the dict and over a list
    u_quit,           \* the sessions that were sent quit
    u_dropped,        \* the sessions close_all removed from the pools
    u_held,           \* the sessions callers hold
    u_made,           \* the sessions opened so far
    z_flags,          \* is_disposable, is_blacklisted, is_role_based of an address
    z_outcome,        \* how the SMTP session of its verification ends
    z_out             \* what validate_email returned for it, once it has

fast_vars ==
    <<mx_cache, catchall_cache, f_runs, f_pc, f_raw, f_result, f_mx_hosts,
      f_dns, f_plan, f_log, f_ca_log>>

async_vars ==
    <<a_mx_cache, a_pools, a_last_request, a_runs, a_pc, a_raw, a_result,
      a_mx_hosts, a_dns, a_log>>

strict_vars == <<s_permits, s_runs, s_pc, s_hosts, s_tasks, s_best, s_result>>

bulk_vars ==
    <<s_combined_cache, b_which, b_pc, b_emails, b_unique, b_pending,
      b_dns_results, b_tasks, b_queries, b_results>>

dns_vars == <<d_pending, d_log>>

idem_vars ==
    <<i_pc, i_run, i_raw, i_start, i_result, i_mx_hosts, i_world, i_first, i_hits>>

score_vars == <<c_phases, c_status, c_first, c_scored>>

syntax_vars == <<x_email, x_fast, x_strict>>

pool_vars ==
    <<p_which, p_pool, p_lock, p_open, p_call, p_calls>>

\* the state of the components modelled further down
throttle_vars == <<t_clock, t_last, t_lock, t_call, t_returns, t_acquires>>

verifier_vars ==
    <<v_permits, v_started, v_one_c, v_one_o, v_two_cc, v_two_co, v_two_oo, v_cancelled>>

retry_vars == <<g_hosts, g_retry, g_plan, g_out>>

cache_vars == <<k_cache, k_read, k_pending, k_reads>>

capacity_vars == <<q_which, q_in_use, q_free, q_lock, q_idle, q_held>>

health_vars ==
    <<h_which, h_pool, h_alive, h_open, h_held, h_acq, h_failed, h_out, h_made>>

isolation_vars == <<o_call, o_tlock, o_plock, o_recent, o_pools, o_calls>>

semaphore_vars ==
    <<sem_total, sem_waiting, sem_queued, sem_probing, sem_pairs, sem_done, sem_valid,
      sem_cached>>

shutdown_vars ==
    <<u_keys, u_pools, u_lock, u_pc, u_it, u_quit, u_dropped, u_held, u_made>>

finalize_vars == <<z_flags, z_outcome, z_out>>

last_vars == <<semaphore_vars, shutdown_vars, finalize_vars>>

late_vars == <<capacity_vars, health_vars, isolation_vars, last_vars>>

ext_vars ==
    <<syntax_vars, pool_vars, throttle_vars, verifier_vars, retry_vars, cache_vars,
      late_vars>>

vars ==
    <<now, fast_vars, async_vars, strict_vars, bulk_vars, dns_vars, idem_vars,
      score_vars, ext_vars>>

(***************************************************************************)
(* fast_validator.py: FastEmailValidator._validate_single                  *)
(***************************************************************************)
_init_result(email) ==
    [email |-> email,
     status |-> "invalid",
     reason |-> "",
     syntax_valid |-> "Not Valid",
     domain_valid |-> "Not Valid",
     mx_record_exists |-> "Not Valid",
     smtp_valid |-> "Not Valid",
     smtp_status |-> <<"n","o","t","_","c","h","e","c","k","e","d">>,
     smtp_code |-> 0,
     role_based |-> "No",
     disposable |-> "No",
     blacklist |-> "No",
     catch_all |-> "No",
     deliverability_score |-> 0,
     quality_grade |-> "F",
     verdict |-> "Invalid",
     regex |-> "Not Valid",
     mx |-> "Not Valid",
     smtp |-> "Not Valid",
     is_valid |-> FALSE,
     is_deliverable |-> FALSE,
     is_safe_to_send |-> FALSE,
     has_inbox_full |-> FALSE,
     mx_accepts_mail |-> FALSE,
     is_inbox_full |-> FALSE,
     is_disabled |-> FALSE,
     is_unknown |-> FALSE,
     is_unverifiable |-> FALSE,
     is_catch_all |-> FALSE,
     is_disposable |-> FALSE,
     is_blacklisted |-> FALSE,
     is_role_based |-> FALSE,
     is_spamtrap |-> FALSE]

YesNo(b) == IF b THEN "Yes" ELSE "No"

\* email.strip().lower()
CleanEmail(raw) == ToLower(Strip(raw))

\* local_part and domain as check_syntax_fast returns them for the result's address
LocalOf(result) == check_syntax_fast(result.email).local
DomainOf(result) == check_syntax_fast(result.email).domain

\* the text after the last "@" of an address (the whole text without one)
AfterLastAt(email) ==
    LET parts == SplitOn(email, "@") IN parts[Len(parts)]

\* (variant of LocalChecks: the disposable rule applied before the syntax rule)
LocalChecks_DisposableFirst(raw) ==
    LET email == CleanEmail(raw)
        result == _init_result(email)
        syntax == check_syntax_fast(email)
        domain == AfterLastAt(email)
        is_disposable == check_disposable_fast(domain)
        is_blacklisted == check_blacklist_fast(domain)
        is_role == check_role_fast(syntax.local)
        checked == [result EXCEPT !.disposable = YesNo(is_disposable),
                                  !.is_disposable = is_disposable,
                                  !.blacklist = YesNo(is_blacklisted),
                                  !.is_blacklisted = is_blacklisted,
                                  !.role_based = YesNo(is_role),
                                  !.is_role_based = is_role]
    IN  IF is_disposable
          THEN [done |-> TRUE,
                result |-> calculate_full_score(
                    [checked EXCEPT !.status = "disposable",
                                    !.reason = "Disposable/temporary email"])]
        ELSE IF ~syntax.valid
          THEN [done |-> TRUE,
                result |-> calculate_full_score([result EXCEPT !.reason = syntax.reason])]
        ELSE IF is_blacklisted \/ check_spamtrap_fast(email, syntax.domain)
          THEN [done |-> TRUE,
                result |-> calculate_full_score(
                    [checked EXCEPT !.status = "spamtrap",
                                    !.syntax_valid = "Valid",
                                    !.regex = "Valid",
                                    !.is_spamtrap = TRUE])]
        ELSE [done |-> FALSE,
              result |-> [checked EXCEPT !.syntax_valid = "Valid", !.regex = "Valid"]]

\* Steps 1 and 2, up to the MX lookup.  [done, result]: done when the
\* function returns here, result being the value returned or the dict so far.
LocalChecks(raw) ==
    LET email == CleanEmail(raw)
        result == _init_result(email)
        syntax == check_syntax_fast(email)
        is_disposable == check_disposable_fast(syntax.domain)
        is_blacklisted == check_blacklist_fast(syntax.domain)
        is_role == check_role_fast(syntax.local)
        checked == [result EXCEPT !.syntax_valid = "Valid",
                                  !.regex = "Valid",
                                  !.disposable = YesNo(is_disposable),
                                  !.is_disposable = is_disposable,
                                  !.blacklist = YesNo(is_blacklisted),
                                  !.is_blacklisted = is_blacklisted,
                                  !.role_based = YesNo(is_role),
                                  !.is_role_based = is_role]
    IN  IF ~syntax.valid
          THEN [done |-> TRUE,
                result |-> calculate_full_score([result EXCEPT !.reason = syntax.reason])]
        ELSE IF is_blacklisted
          THEN [done |-> TRUE,
                result |-> calculate_full_score(
                    [checked EXCEPT !.status = "spamtrap",
                                    !.reason = "Blacklisted domain (potential spamtrap)",
                                    !.is_spamtrap = TRUE])]
        ELSE IF check_spamtrap_fast(email, syntax.domain)
          THEN [done |-> TRUE,
                result |-> calculate_full_score(
                    [checked EXCEPT !.status = "spamtrap",
                                    !.reason = "Known spamtrap address",
                                    !.is_spamtrap = TRUE])]
        ELSE IF is_disposable
          THEN [done |-> TRUE,
                result |-> calculate_full_score(
                    [checked EXCEPT !.status = "disposable",
                                    !.reason = "Disposable/temporary email"])]
        ELSE [done |-> FALSE, result |-> checked]

\* Steps 3 (after the lookup) and 4: from the MX list to the SMTP step.
\* [done, result] as above.
AfterMx(result, mx_hosts) ==
    LET local_part == LocalOf(result)
        domain == DomainOf(result)
        is_role == result.is_role_based
        with_mx == [result EXCEPT !.domain_valid = "Valid",
                                  !.mx_record_exists = "Valid",
                                  !.mx = "Valid",
                                  !.mx_accepts_mail = TRUE]
    IN  IF Len(mx_hosts) = 0
          THEN [done |-> TRUE,
                result |-> calculate_full_score(
                    [result EXCEPT !.status = "unknown",
                                   !.reason = "No mail server found",
                                   !.is_unknown = TRUE])]
        ELSE IF is_trusted_provider(domain)
          THEN IF ~username_valid(local_part, domain)
                 THEN [done |-> TRUE,
                       result |-> calculate_full_score(
                           [with_mx EXCEPT !.status = "invalid",
                                           !.reason = "Username does not meet provider rules"])]
                 ELSE [done |-> TRUE,
                       result |-> calculate_full_score(
                           [with_mx EXCEPT
                               !.status = IF is_role THEN "role" ELSE "safe",
                               !.reason = IF is_role
                                            THEN "Role-based email (admin@, info@, etc.)"
                                            ELSE "Valid email address (provider does not allow SMTP verification)",
                               !.is_valid = TRUE,
                               !.is_deliverable = TRUE,
                               !.is_safe_to_send = ~is_role,
                               !.smtp_status = <<"s","k","i","p","p","e","d","_","t","r","u","s","t","e","d","_","p","r","o","v","i","d","e","r">>,
                               !.smtp_valid = "Skipped",
                               !.smtp = "Skipped (Free Provider)"])]
        ELSE [done |-> FALSE, result |-> with_mx]

\* (variant of AfterCatchall: the role rule applied before the catch-all rule)
AfterCatchall_RoleFirst(result, is_catchall) ==
    IF result.is_role_based
      THEN calculate_full_score(
               [result EXCEPT !.status = "role",
                              !.is_safe_to_send = FALSE,
                              !.reason = "Role-based email (admin@, info@, etc.)"])
    ELSE IF is_catchall
      THEN calculate_full_score(
               [result EXCEPT !.is_catch_all = TRUE,
                              !.catch_all = "Yes",
                              !.status = "catch_all",
                              !.reason = "Domain accepts all emails (catch-all)",
                              !.is_safe_to_send = FALSE])
    ELSE calculate_full_score(
             [result EXCEPT !.status = "safe",
                            !.is_safe_to_send = TRUE,
                            !.reason = "Valid email address"])

\* The result of a positive probe once the catch-all verdict is known.
AfterCatchall(result, is_catchall) ==
    LET is_role == result.is_role_based
    IN  IF is_catchall
          THEN calculate_full_score(
                   [result EXCEPT !.is_catch_all = TRUE,
                                  !.catch_all = "Yes",
                                  !.status = "catch_all",
                                  !.reason = "Domain accepts all emails (catch-all)",
                                  !.is_safe_to_send = FALSE])
          ELSE calculate_full_score(
                   [result EXCEPT !.status = IF is_role THEN "role" ELSE "safe",
                                  !.is_safe_to_send = ~is_role,
                                  !.reason = IF is_role
                                               THEN "Role-based email (admin@, info@, etc.)"
                                               ELSE "Valid email address"])

\* The tests of step 5 on the code and the status word of verify_smtp's value.
\* A faulty variant precedes the test it is a variant of.

\* (variant: a temporary failure counted as a rejection)
IsRejected_WithGreylisting(code, status) ==
    code \in {450, 451, 421, 550, 551, 553} \/ Contains(status, <<"n","o","t","_","f","o","u","n","d">>)

\* (variant: only 550 counted as a rejection)
IsRejected_Only550(code, status) ==
    code = 550 \/ Contains(status, <<"n","o","t","_","f","o","u","n","d">>)

\* if code in [550, 551, 553] or "not_found" in status
IsRejected(code, status) ==
    code \in {550, 551, 553} \/ Contains(status, <<"n","o","t","_","f","o","u","n","d">>)

\* if code == 554 or "disabled" in status
IsDisabled(code, status) ==
    code = 554 \/ Contains(status, <<"d","i","s","a","b","l","e","d">>)

\* (variant: the mailbox-full test left out)
IsMailboxFull_Omitted(code, status) == FALSE

\* if code in MAILBOX_FULL_CODES or "full" in status or "quota" in status
IsMailboxFull(code, status) ==
    code \in MAILBOX_FULL_CODES \/ Contains(status, <<"f","u","l","l">>) \/ Contains(status, <<"q","u","o","t","a">>)

\* if code in [450, 451] or "timeout" in status or ... or "error" in status
IsInconclusive(code, status) ==
    \/ code \in {450, 451}
    \/ Contains(status, <<"t","i","m","e","o","u","t">>)
    \/ Contains(status, <<"u","n","a","v","a","i","l","a","b","l","e">>)
    \/ Contains(status, <<"c","o","n","n","e","c","t">>)
    \/ Contains(status, <<"e","r","r","o","r">>)

\* Step 5: from the value of verify_smtp to the return or to the catch-all
\* check.  [done, result] as above.
AfterSmtp(result0, smtp_result) ==
    LET code == smtp_result.code
        status == smtp_result.status
        result == [result0 EXCEPT !.smtp_status = smtp_result.status,
                                  !.smtp_code = smtp_result.code]
        unknown(reason) ==
            calculate_full_score(
                [result EXCEPT !.status = "unknown",
                               !.is_unknown = TRUE,
                               !.reason = reason,
                               !.smtp_valid = "Inconclusive",
                               !.smtp = "Unknown"])
    IN  IF IsRejected(code, status)
          THEN [done |-> TRUE,
                result |-> calculate_full_score(
                    [result EXCEPT !.reason = "Mailbox does not exist",
                                   !.status = "invalid"])]
        ELSE IF IsDisabled(code, status)
          THEN [done |-> TRUE,
                result |-> calculate_full_score(
                    [result EXCEPT !.reason = "Mailbox disabled by provider",
                                   !.status = "disabled",
                                   !.is_disabled = TRUE])]
        ELSE IF IsMailboxFull(code, status)
          THEN [done |-> TRUE,
                result |-> calculate_full_score(
                    [result EXCEPT !.reason = "Mailbox is full or quota exceeded",
                                   !.is_inbox_full = TRUE,
                                   !.status = "inbox_full",
                                   !.is_valid = TRUE,
                                   !.has_inbox_full = TRUE,
                                   !.smtp_valid = "Valid",
                                   !.smtp = "Valid"])]
        ELSE IF smtp_result.valid
          THEN [done |-> FALSE,
                result |-> [result EXCEPT !.smtp_valid = "Valid",
                                          !.smtp = "Valid",
                                          !.is_valid = TRUE,
                                          !.is_deliverable = TRUE]]
        ELSE IF IsInconclusive(code, status)
          THEN [done |-> TRUE,
                result |-> unknown("SMTP verification inconclusive (server did not respond)")]
        ELSE [done |-> TRUE,
              result |-> unknown("SMTP verification could not be completed")]

(***************************************************************************)
(* The fast pipeline as a state machine.  A validation suspends at the MX  *)
(* query, at the SMTP probe and at the catch-all probes; everything        *)
(* between two suspensions is one step.                                    *)
(***************************************************************************)
EmptyResult == _init_result(<<>>)

FastInit ==
    /\ mx_cache = <<>>
    /\ catchall_cache = <<>>
    /\ f_runs = 0
    /\ f_pc = "idle"
    /\ f_raw = <<>>
    /\ f_result = EmptyResult
    /\ f_mx_hosts = <<>>
    /\ f_dns = 0
    /\ f_plan = <<>>
    /\ f_log = <<>>
    /\ f_ca_log = <<>>

\* The validation goes on with the MX list: it returns, or it starts the
\* SMTP probe.
ContinueWithMx(result, mx_hosts) ==
    LET next == AfterMx(result, mx_hosts)
    IN  /\ f_result' = next.result
        /\ f_mx_hosts' = mx_hosts
        /\ f_pc' = IF next.done THEN "done" ELSE "smtp_wait"

\* validate_email(raw): _validate_single up to its first suspension.  With
\* the MX list in the cache resolve_mx returns at once.
FastValidate(raw) ==
    /\ f_pc \in {"idle", "done"}
    /\ f_runs < MaxValidations
    /\ f_runs' = f_runs + 1
    /\ f_raw' = raw
    /\ f_dns' = 0
    /\ f_plan' = <<>>
    /\ f_log' = <<>>
    /\ f_ca_log' = <<>>
    /\ LET local == LocalChecks(raw)
           cached == FastCacheGet(mx_cache, DomainOf(local.result), now)
       IN  IF local.done
             THEN /\ f_result' = local.result
                  /\ f_mx_hosts' = <<>>
                  /\ f_pc' = "done"
                  /\ mx_cache' = mx_cache
           ELSE IF cached.hit
             THEN /\ ContinueWithMx(local.result, cached.value)
                  /\ mx_cache' = mx_cache
           ELSE /\ f_result' = local.result
                /\ f_mx_hosts' = <<>>
                /\ f_pc' = "dns_wait"
                /\ mx_cache' = cached.cache
    /\ UNCHANGED <<now, catchall_cache, async_vars, strict_vars, bulk_vars, dns_vars,
                   idem_vars, score_vars,
                   ext_vars>>

\* resolve_mx: the MX query completes (answer, timeout or error); the list
\* is cached and the validation goes on.
FastDnsAnswer(answer) ==
    /\ f_pc = "dns_wait"
    /\ LET resolved == ResolvedMx(answer)
       IN  /\ mx_cache' = FastCacheSet(mx_cache, MX_CACHE_MAX_SIZE, DomainOf(f_result),
                                       resolved.mx_list, resolved.ttl, now)
           /\ ContinueWithMx(f_result, resolved.mx_list)
    /\ f_dns' = f_dns + 1
    /\ UNCHANGED <<now, catchall_cache, f_runs, f_raw, f_plan, f_log, f_ca_log,
                   async_vars, strict_vars, bulk_vars, dns_vars,
                   idem_vars, score_vars,
                   ext_vars>>

\* the plans of the hosts verify_smtp may try
PlansFor(mx_hosts) == [1..Min(Len(mx_hosts), MAX_MX_HOSTS_TO_TRY) -> HostPlans]

\* retry_greylisting as _validate_single passes it to verify_smtp
PIPELINE_RETRY_GREYLISTING == FALSE

\* verify_smtp returns; the validation returns or goes on to check_catchall,
\* which returns at once with a cached verdict.
FastSmtpDone(plan) ==
    /\ f_pc = "smtp_wait"
    /\ LET smtp == verify_smtp(f_mx_hosts, PIPELINE_RETRY_GREYLISTING, plan)
           next == AfterSmtp(f_result, smtp.result)
           cached == FastCacheGet(catchall_cache, DomainOf(f_result), now)
       IN  /\ f_plan' = PlanSummary(plan)
           /\ f_log' = smtp.log
           /\ IF next.done
                THEN /\ f_result' = next.result
                     /\ f_pc' = "done"
                     /\ catchall_cache' = catchall_cache
              ELSE IF cached.hit
                THEN /\ f_result' = AfterCatchall(next.result, cached.value)
                     /\ f_pc' = "done"
                     /\ catchall_cache' = catchall_cache
              ELSE /\ f_result' = next.result
                   /\ f_pc' = "catchall_wait"
                   /\ catchall_cache' = cached.cache
    /\ UNCHANGED <<now, mx_cache, f_runs, f_raw, f_mx_hosts, f_dns, f_ca_log,
                   async_vars, strict_vars, bulk_vars, dns_vars,
                   idem_vars, score_vars,
                   ext_vars>>

\* the sessions of a synthetic address: retry_greylisting=False, so one
\* session per host tried
SyntheticPlans(mx_hosts) ==
    [1..Min(Len(mx_hosts), MAX_MX_HOSTS_TO_TRY) -> {<<o>> : o \in SyntheticOutcomes}]

\* check_catchall: the two probes of random addresses have completed
\* (asyncio.gather); the verdict is cached and the validation returns.
FastCatchallDone(plan1, plan2) ==
    /\ f_pc = "catchall_wait"
    /\ LET r1 == verify_smtp(f_mx_hosts, FALSE, plan1)
           r2 == verify_smtp(f_mx_hosts, FALSE, plan2)
           is_catchall == r1.result.valid /\ r2.result.valid
       IN  /\ catchall_cache' = FastCacheSet(catchall_cache, CATCHALL_CACHE_MAX_SIZE,
                                             DomainOf(f_result), is_catchall,
                                             CATCHALL_CACHE_TTL, now)
           /\ f_ca_log' = <<r1.log, r2.log>>
           /\ f_result' = AfterCatchall(f_result, is_catchall)
           /\ f_pc' = "done"
    /\ UNCHANGED <<now, mx_cache, f_runs, f_raw, f_mx_hosts, f_dns, f_plan, f_log,
                   async_vars, strict_vars, bulk_vars, dns_vars,
                   idem_vars, score_vars,
                   ext_vars>>

\* time passes
Tick ==
    /\ now + TickStep <= MaxClock
    /\ now' = now + TickStep
    /\ UNCHANGED <<fast_vars, async_vars, strict_vars, bulk_vars, dns_vars,
                   idem_vars, score_vars,
                   ext_vars>>

FastNext ==
    \/ Tick
    \/ \E raw \in RawEmails : FastValidate(raw)
    \/ \E answer \in DnsAnswers : FastDnsAnswer(answer)
    \/ \E plan \in PlansFor(f_mx_hosts) : FastSmtpDone(plan)
    \/ \E plan1, plan2 \in SyntheticPlans(f_mx_hosts) : FastCatchallDone(plan1, plan2)


(***************************************************************************)
(* async_validator.py: configuration and local checks                      *)
(***************************************************************************)
POOL_SIZE_PER_DOMAIN == 15
ASYNC_CONNECTION_TTL == 180
ASYNC_MX_CACHE_TTL == 300

ASYNC_TRUSTED_PROVIDERS ==
    {<<"g","m","a","i","l",".","c","o","m">>, <<"g","o","o","g","l","e","m","a","i","l",".","c","o","m">>,
     <<"o","u","t","l","o","o","k",".","c","o","m">>, <<"h","o","t","m","a","i","l",".","c","o","m">>, <<"l","i","v","e",".","c","o","m">>, <<"m","s","n",".","c","o","m">>, <<"o","u","t","l","o","o","k",".","i","n">>,
     <<"y","a","h","o","o",".","c","o","m">>, <<"y","a","h","o","o",".","c","o",".","u","k">>, <<"y","a","h","o","o",".","c","o",".","i","n">>, <<"y","a","h","o","o",".","i","n">>, <<"y","m","a","i","l",".","c","o","m">>, <<"r","o","c","k","e","t","m","a","i","l",".","c","o","m">>,
     <<"i","c","l","o","u","d",".","c","o","m">>, <<"m","e",".","c","o","m">>, <<"m","a","c",".","c","o","m">>,
     <<"a","o","l",".","c","o","m">>, <<"a","i","m",".","c","o","m">>,
     <<"p","r","o","t","o","n","m","a","i","l",".","c","o","m">>, <<"p","r","o","t","o","n",".","m","e">>, <<"p","m",".","m","e">>,
     <<"z","o","h","o",".","c","o","m">>, <<"z","o","h","o","m","a","i","l",".","c","o","m">>, <<"z","o","h","o",".","i","n">>,
     <<"f","a","s","t","m","a","i","l",".","c","o","m">>, <<"f","a","s","t","m","a","i","l",".","f","m">>,
     <<"t","u","t","a","n","o","t","a",".","c","o","m">>, <<"t","u","t","a","n","o","t","a",".","d","e">>, <<"t","u","t","a",".","i","o">>,
     <<"g","m","x",".","c","o","m">>, <<"g","m","x",".","n","e","t">>, <<"g","m","x",".","d","e">>,
     <<"m","a","i","l",".","c","o","m">>, <<"e","m","a","i","l",".","c","o","m">>,
     <<"y","a","n","d","e","x",".","c","o","m">>, <<"y","a","n","d","e","x",".","r","u">>,
     <<"r","e","d","i","f","f","m","a","i","l",".","c","o","m">>}

RfcSyntaxFail(reason) == [valid |-> FALSE, reason |-> reason]

check_rfc_syntax(email) ==
    IF Len(email) = 0 THEN RfcSyntaxFail("Empty or invalid email")
    ELSE IF Len(email) > 320 THEN RfcSyntaxFail("Email too long")
    ELSE IF CountChar(email, "@") # 1 THEN RfcSyntaxFail("Must contain exactly one @ symbol")
    ELSE
      LET parts == SplitOn(email, "@")
          local_part == parts[1]
          domain_part == parts[2]
          labels == SplitOn(domain_part, ".")
          tld == labels[Len(labels)]
      IN  IF Len(local_part) = 0 \/ Len(local_part) > 64
            THEN RfcSyntaxFail("Invalid local part length")
          ELSE IF Len(domain_part) = 0 \/ Len(domain_part) > 255
            THEN RfcSyntaxFail("Invalid domain length")
          ELSE IF Contains(email, <<".",".">>)
            THEN RfcSyntaxFail("Consecutive dots not allowed")
          ELSE IF local_part[1] = "." \/ local_part[Len(local_part)] = "."
            THEN RfcSyntaxFail("Local part cannot start or end with dot")
          ELSE IF domain_part[1] = "." \/ domain_part[Len(domain_part)] = "."
            THEN RfcSyntaxFail("Domain cannot start or end with dot")
          ELSE IF ~LocalPatternMatches(local_part)
            THEN RfcSyntaxFail("Invalid characters in local part")
          ELSE IF ~DomainPatternMatches(domain_part)
            THEN RfcSyntaxFail("Invalid domain format")
          ELSE IF Len(tld) < 2
            THEN RfcSyntaxFail("Invalid TLD")
          ELSE IF Contains(email, <<" ">>)
            THEN RfcSyntaxFail("Spaces not allowed")
          ELSE [valid |-> TRUE, reason |-> "Valid syntax"]

check_disposable(domain) == ToLower(domain) \in DISPOSABLE_DOMAINS

check_blacklist(domain) == ToLower(domain) \in BLACKLIST_DOMAINS

is_role_based(email) ==
    LET username == ToLower(SplitOn(email, "@")[1])
        username_normalized == RemoveChars(username, {".", "-"})
    IN  username \in ROLE_EMAILS \/ username_normalized \in ROLE_EMAILS

(***************************************************************************)
(* async_validator.py: MXCache and _resolve_mx                             *)
(***************************************************************************)
\* MXCache.get: [hit, value, cache]; an expired entry is deleted
MXCacheGet(cache, domain, time) ==
    IF CacheHas(cache, domain)
      THEN LET entry == CacheEntryOf(cache, domain)
           IN  IF time < entry.expires_at
                 THEN [hit |-> TRUE, value |-> entry.value, cache |-> cache]
                 ELSE [hit |-> FALSE, value |-> <<>>, cache |-> CacheWithout(cache, domain)]
      ELSE [hit |-> FALSE, value |-> <<>>, cache |-> cache]

\* MXCache.set with the default ttl
MXCacheSet(cache, domain, mx_hosts, time) ==
    LET entry == [key |-> domain, value |-> mx_hosts,
                  expires_at |-> time + ASYNC_MX_CACHE_TTL]
    IN  IF CacheHas(cache, domain)
          THEN [i \in 1..Len(cache) |-> IF cache[i].key = domain THEN entry ELSE cache[i]]
          ELSE Append(cache, entry)

\* The completion of the MX query of _resolve_mx: the list returned and
\* whether it is cached (a timeout or an error returns [] uncached).
AsyncResolvedMx(answer) ==
    IF answer.kind = "answer"
      THEN [mx_list |-> MxList(answer.records), cached |-> TRUE]
      ELSE [mx_list |-> <<>>, cached |-> FALSE]

(***************************************************************************)
(* async_validator.py: SMTPConnectionPool                                  *)
(*                                                                         *)
(* The pool of a domain is the list of its PooledConnection objects:       *)
(* [id, created_at, in_use].                                               *)
(***************************************************************************)
\* PooledConnection.is_expired
IsExpired(conn, time) == time - conn.created_at > ASYNC_CONNECTION_TTL

FreshId(pool) ==
    IF Len(pool) = 0 THEN 1
    ELSE 1 + (CHOOSE m \in {pool[i].id : i \in 1..Len(pool)} :
                  \A i \in 1..Len(pool) : pool[i].id <= m)

\* get_connection handing out the first connection that has not expired,
\* in use or not
get_connection_AnyUnexpired(pool, connected, time) ==
    LET free == {i \in 1..Len(pool) : ~IsExpired(pool[i], time)}
        kept == SelectSeq(pool, LAMBDA c : ~IsExpired(c, time))
    IN  IF free # {}
          THEN LET i == CHOOSE k \in free : \A j \in free : k <= j
               IN  [conn |-> pool[i].id, reused |-> TRUE,
                    pool |-> [pool EXCEPT ![i].in_use = TRUE]]
        ELSE IF Len(kept) < POOL_SIZE_PER_DOMAIN /\ connected
          THEN [conn |-> FreshId(kept), reused |-> FALSE,
                pool |-> Append(kept, [id |-> FreshId(kept), created_at |-> time,
                                       in_use |-> TRUE])]
        ELSE [conn |-> 0, reused |-> FALSE, pool |-> kept]

\* get_connection: [conn, pool], conn = 0 for None, else the id of the
\* connection handed out.  connected tells whether smtp.connect() of a new
\* pooled connection succeeds.
get_connection(pool, connected, time) ==
    LET free == {i \in 1..Len(pool) : ~pool[i].in_use /\ ~IsExpired(pool[i], time)}
        kept == SelectSeq(pool, LAMBDA c : ~IsExpired(c, time))
    IN  IF free # {}
          THEN LET i == CHOOSE k \in free : \A j \in free : k <= j
               IN  [conn |-> pool[i].id, reused |-> TRUE,
                    pool |-> [pool EXCEPT ![i].in_use = TRUE]]
        ELSE IF Len(kept) < POOL_SIZE_PER_DOMAIN /\ connected
          THEN [conn |-> FreshId(kept), reused |-> FALSE,
                pool |-> Append(kept, [id |-> FreshId(kept), created_at |-> time,
                                       in_use |-> TRUE])]
        ELSE [conn |-> 0, reused |-> FALSE, pool |-> kept]

\* release_connection: the first entry holding the connection is marked free
release_connection(pool, conn) ==
    LET held == {i \in 1..Len(pool) : pool[i].id = conn}
    IN  IF held = {} THEN pool
        ELSE LET i == CHOOSE k \in held : \A j \in held : k <= j
             IN  [pool EXCEPT ![i].in_use = FALSE]

\* close_connection: the entries holding the connection are removed
close_connection(pool, conn) == SelectSeq(pool, LAMBDA c : c.id # conn)

(***************************************************************************)
(* async_validator.py: AsyncEmailValidator._check_smtp                     *)
(***************************************************************************)
AsyncResult(valid, status, code) == [valid |-> valid, status |-> status, code |-> code]

\* the interpretation of the RCPT code in _check_smtp
AsyncInterpret(code) ==
    IF code = 250 THEN AsyncResult(TRUE, <<"d","e","l","i","v","e","r","a","b","l","e">>, code)
    ELSE IF code = 550 THEN AsyncResult(FALSE, <<"m","a","i","l","b","o","x","_","n","o","t","_","f","o","u","n","d">>, code)
    ELSE IF code = 551 THEN AsyncResult(FALSE, <<"u","s","e","r","_","n","o","t","_","l","o","c","a","l">>, code)
    ELSE IF code = 552 THEN AsyncResult(FALSE, <<"i","n","b","o","x","_","f","u","l","l">>, code)
    ELSE IF code = 553 THEN AsyncResult(FALSE, <<"m","a","i","l","b","o","x","_","n","a","m","e","_","i","n","v","a","l","i","d">>, code)
    ELSE IF code = 554 THEN AsyncResult(FALSE, <<"m","a","i","l","b","o","x","_","d","i","s","a","b","l","e","d">>, code)
    ELSE IF code \in {450, 451, 452} THEN AsyncResult(FALSE, <<"t","e","m","p","o","r","a","r","y","_","f","a","i","l","u","r","e">>, code)
    ELSE IF code = 421 THEN AsyncResult(FALSE, <<"s","e","r","v","i","c","e","_","u","n","a","v","a","i","l","a","b","l","e">>, code)
    ELSE AsyncResult(FALSE, <<"s","m","t","p","_","c","o","d","e","_">> \o DecimalDigits(code), code)

\* What the session with one host comes to.  The remote host and the network
\* decide it:
\*   connect     "ok", "timeout" (asyncio.TimeoutError) or "failed" (another
\*               exception): smtp.connect() of the pool's new connection
\*   reconnect   the same for the unpooled connection _check_smtp opens when
\*               the pool hands out None
\*   kind        after the connection: "command_timeout", "smtp_error"
\*               (SMTPException) or "command_error" (another exception) in
\*               HELO, MAIL FROM or RCPT TO, or "response" (RCPT TO answered
\*               with code)
AsyncOutcome(connect, reconnect, kind, code) ==
    [connect |-> connect, reconnect |-> reconnect, kind |-> kind, code |-> code]

\* One entry of the log of sessions: the host, how the session ended
\* ("connect_timeout" and "connect_failed" for a session that never
\* connected), the code answered and the connection used (0: unpooled).
AsyncEntry(host, kind, code, conn, reused) ==
    [host |-> host, kind |-> kind, code |-> code, conn |-> conn, reused |-> reused]

\* The "for mx_host in mx_hosts[:2]" loop of _check_smtp from host i on.
\* Returns the value of _check_smtp, the pool of the domain and the sessions.
RECURSIVE CheckHosts(_, _, _, _, _, _)
CheckHosts(i, n, plan, pool, time, log) ==
    IF i > n
      THEN [result |-> AsyncResult(FALSE, <<"c","o","n","n","e","c","t","i","o","n","_","f","a","i","l","e","d">>, 0), pool |-> pool, log |-> log]
    ELSE
      LET o == plan[i]
          got == get_connection(pool, o.connect = "ok", time)
          \* a connection of the pool, or the unpooled one connected here
          connected == got.conn # 0 \/ o.reconnect = "ok"
          how == IF got.conn # 0 THEN o.kind
                 ELSE IF o.reconnect = "ok" THEN o.kind
                 ELSE IF o.reconnect = "timeout" THEN "connect_timeout"
                 ELSE "connect_failed"
          entry == AsyncEntry(i, how, IF how = "response" THEN o.code ELSE 0,
                              got.conn, got.reused)
      IN  IF how = "response"
            THEN [result |-> AsyncInterpret(o.code),
                  pool |-> release_connection(got.pool, got.conn),
                  log |-> Append(log, entry)]
          ELSE CheckHosts(i + 1, n, plan, close_connection(got.pool, got.conn), time,
                          Append(log, entry))

\* AsyncEmailValidator._check_smtp for a non-empty mx_hosts
_check_smtp(mx_hosts, plan, pool, time) ==
    CheckHosts(1, Min(Len(mx_hosts), 2), plan, pool, time, <<>>)

(***************************************************************************)
(* async_validator.py: AsyncEmailValidator._validate_single                *)
(***************************************************************************)
async_init_result(email) ==
    [email |-> email,
     status |-> "Invalid",
     reason |-> "",
     syntax_valid |-> "Not Valid",
     domain_valid |-> "Not Valid",
     mx_record_exists |-> "Not Valid",
     smtp_valid |-> "Not Valid",
     smtp_status |-> <<"n","o","t","_","c","h","e","c","k","e","d">>,
     smtp_code |-> 0,
     role_based |-> "No",
     disposable |-> "No",
     blacklist |-> "No",
     catch_all |-> "No",
     deliverability_score |-> 0,
     quality_grade |-> "F",
     verdict |-> "Invalid",
     regex |-> "Not Valid",
     mx |-> "Not Valid",
     smtp |-> "Not Valid",
     is_valid |-> FALSE,
     is_deliverable |-> FALSE,
     is_safe_to_send |-> FALSE,
     has_inbox_full |-> FALSE,
     mx_accepts_mail |-> FALSE,
     is_inbox_full |-> FALSE,
     is_disabled |-> FALSE,
     is_unknown |-> FALSE,
     is_catch_all |-> FALSE,
     is_disposable |-> FALSE,
     is_blacklisted |-> FALSE,
     is_role_based |-> FALSE]

\* email.split('@')[1] of an address with valid syntax
AsyncDomainOf(result) == SplitOn(result.email, "@")[2]

\* Steps 1 and 2, up to the MX lookup.  [done, result]: done when the
\* function returns here.
AsyncLocalChecks(raw) ==
    LET email == CleanEmail(raw)
        result == async_init_result(email)
        syntax == check_rfc_syntax(email)
        domain == SplitOn(email, "@")[2]
        is_disposable == check_disposable(domain)
        is_blacklisted == check_blacklist(domain)
        is_role == is_role_based(email)
    IN  IF ~syntax.valid
          THEN [done |-> TRUE,
                result |-> calculate_full_score([result EXCEPT !.reason = syntax.reason])]
        ELSE [done |-> FALSE,
              result |-> [result EXCEPT !.syntax_valid = "Valid",
                                        !.regex = "Valid",
                                        !.disposable = YesNo(is_disposable),
                                        !.is_disposable = is_disposable,
                                        !.blacklist = YesNo(is_blacklisted),
                                        !.is_blacklisted = is_blacklisted,
                                        !.role_based = YesNo(is_role),
                                        !.is_role_based = is_role]]

\* (variant of AsyncAfterMx: a domain without MX reported "Invalid")
AsyncAfterMx_NoMxInvalid(result, mx_hosts) ==
    IF Len(mx_hosts) = 0
      THEN [done |-> TRUE,
            result |-> calculate_full_score(
                [result EXCEPT !.status = "Invalid",
                               !.reason = "No mail server found"])]
    ELSE IF result.is_blacklisted \/ result.is_disposable
      THEN [done |-> TRUE,
            result |-> calculate_full_score(
                [result EXCEPT !.domain_valid = "Valid",
                               !.mx_record_exists = "Valid",
                               !.mx = "Valid",
                               !.status = IF result.is_blacklisted THEN "Blacklisted"
                                          ELSE "Disposable"])]
    ELSE [done |-> FALSE,
          result |-> [result EXCEPT !.domain_valid = "Valid",
                                    !.mx_record_exists = "Valid",
                                    !.mx = "Valid"]]

\* Step 3 after the lookup, and the known-bad domains.  [done, result].
AsyncAfterMx(result, mx_hosts) ==
    LET with_mx == [result EXCEPT !.domain_valid = "Valid",
                                  !.mx_record_exists = "Valid",
                                  !.mx = "Valid"]
    IN  IF Len(mx_hosts) = 0
          THEN [done |-> TRUE,
                result |-> calculate_full_score(
                    [result EXCEPT !.status = "Unknown",
                                   !.reason = "No mail server found",
                                   !.is_unknown = TRUE])]
        ELSE IF result.is_blacklisted
          THEN [done |-> TRUE,
                result |-> calculate_full_score(
                    [with_mx EXCEPT !.status = "Blacklisted",
                                    !.reason = "Blacklisted domain"])]
        ELSE IF result.is_disposable
          THEN [done |-> TRUE,
                result |-> calculate_full_score(
                    [with_mx EXCEPT !.status = "Disposable",
                                    !.reason = "Disposable/temporary email"])]
        ELSE [done |-> FALSE, result |-> with_mx]

\* Step 4 after _check_smtp: the value returned.
AsyncAfterSmtp(result0, smtp_result) ==
    LET domain == AsyncDomainOf(result0)
        is_role == result0.is_role_based
        smtp_code == smtp_result.code
        smtp_status == smtp_result.status
        result == [result0 EXCEPT !.smtp_status = smtp_result.status,
                                  !.smtp_code = smtp_result.code,
                                  !.mx_accepts_mail = TRUE]
    IN  IF smtp_code \in {550, 551, 553} \/ Contains(smtp_status, <<"m","a","i","l","b","o","x","_","n","o","t","_","f","o","u","n","d">>)
          THEN calculate_full_score(
                   [result EXCEPT !.reason = "Mailbox does not exist",
                                  !.status = "Invalid",
                                  !.smtp = "Not Valid"])
        ELSE IF smtp_result.valid
          THEN calculate_full_score(
                   [result EXCEPT !.smtp_valid = "Valid",
                                  !.smtp = "Valid",
                                  !.is_deliverable = TRUE,
                                  !.is_safe_to_send = ~is_role,
                                  !.status = IF is_role THEN "Role-Based" ELSE "Valid",
                                  !.reason = IF is_role THEN "Role-based email"
                                             ELSE "Deliverable",
                                  !.is_valid = TRUE])
        ELSE IF domain \in ASYNC_TRUSTED_PROVIDERS
          THEN calculate_full_score(
                   [result EXCEPT !.status = IF is_role THEN "Role-Based" ELSE "Valid",
                                  !.is_valid = TRUE,
                                  !.is_deliverable = TRUE,
                                  !.is_safe_to_send = ~is_role,
                                  !.smtp_valid = "Unknown",
                                  !.smtp = "Valid",
                                  !.reason = IF is_role THEN "Role-based email"
                                             ELSE "Valid (Trusted Provider)",
                                  !.is_unknown = FALSE])
        ELSE calculate_full_score([result EXCEPT !.verdict = result.status])

(***************************************************************************)
(* Inputs of validate_bulk                                                 *)
(***************************************************************************)
\* the longest list passed to validate_bulk
MaxBatch == 2

\* the elements of the lists passed to validate_bulk, as the caller passes
\* them
BulkRawEmails ==
    {<<"j","o","h","n","d","o","e","@","e","x","a","m","p","l","e",".","o","r","g">>, <<" ","J","o","h","n","D","o","e","@","E","x","a","m","p","l","e",".","O","R","G"," ">>, <<"j","a","n","e","@","e","x","a","m","p","l","e",".","n","e","t">>,
     <<"j","o","h","n","d","o","e","@","g","m","a","i","l",".","c","o","m">>, <<"j","o","h","n","d","o","e","@","s","i","n","k",".","n","e","t">>, <<" ">>, <<"n","o","b","o","d","y">>}

BulkInputs == UNION {[1..n -> BulkRawEmails] : n \in 0..MaxBatch}

(***************************************************************************)
(* The default pipeline as a state machine.  A validation suspends at the  *)
(* MX query and in _check_smtp; the validations of the model run one after *)
(* the other on one validator.  The counters and timings of _metrics,      *)
(* which the validation never reads back, are left out; the throttler's    *)
(* sleep is shorter than one tick of the clock.                            *)
(***************************************************************************)
\* input addresses of the default pipeline
AsyncRawEmails ==
    {<<"j","o","h","n","d","o","e","@","e","x","a","m","p","l","e",".","o","r","g">>, <<"a","d","m","i","n","@","e","x","a","m","p","l","e",".","o","r","g">>, <<" ","J","o","h","n","D","o","e","@","E","x","a","m","p","l","e",".","O","R","G"," ">>,
     <<"j","o","h","n","d","o","e","@","g","m","a","i","l",".","c","o","m">>, <<"j","o","h","n","d","o","e","@","t","e","m","p",".","i","o">>, <<"j","o","h","n","d","o","e","@","b","a","d",".","b","i","z">>,
     <<"j","o","h","n",".",".","d","o","e","@","t","e","m","p",".","i","o">>, <<>>}

AsyncDomains ==
    {SplitOn(CleanEmail(raw), "@")[2] :
        raw \in {r \in AsyncRawEmails \cup BulkRawEmails :
                    check_rfc_syntax(CleanEmail(r)).valid}}

AsyncSmtpCodes == {250, 450, 550, 552, 554}

AsyncSessionOutcomes ==
    {AsyncOutcome(k, k, "response", 0) : k \in {"timeout", "failed"}}
      \cup {AsyncOutcome("ok", "ok", k, 0) :
                k \in {"command_timeout", "smtp_error", "command_error"}}
      \cup {AsyncOutcome("ok", "ok", "response", c) : c \in AsyncSmtpCodes}
      \cup {AsyncOutcome("timeout", "ok", "response", 250),
            AsyncOutcome("timeout", "ok", "response", 550),
            AsyncOutcome("failed", "ok", "command_timeout", 0)}

\* the session ends without an answer to RCPT TO whatever connection is used
NeverAnswers(o) == o.kind # "response" \/ (o.connect # "ok" /\ o.reconnect # "ok")

\* how the session with the second host ends
AsyncSecondOutcomes ==
    {AsyncOutcome("timeout", "timeout", "response", 0),
     AsyncOutcome("ok", "ok", "command_timeout", 0),
     AsyncOutcome("ok", "ok", "response", 250),
     AsyncOutcome("ok", "ok", "response", 450),
     AsyncOutcome("ok", "ok", "response", 550)}

\* the MX answers of the default pipeline
AsyncDnsAnswers ==
    {answer \in DnsAnswers :
        answer.kind = "answer" /\ Len(answer.records) = 2
            => answer.records[1].priority > answer.records[2].priority}

\* what the hosts _check_smtp may try come to: a second host only after a
\* first that may fail
AsyncPlans(mx_hosts) ==
    IF Len(mx_hosts) = 1
      THEN {<<o>> : o \in AsyncSessionOutcomes}
      ELSE {<<o>> : o \in {x \in AsyncSessionOutcomes : ~NeverAnswers(x)}}
             \cup {<<o1, o2>> : o1 \in {x \in AsyncSessionOutcomes : NeverAnswers(x)},
                                o2 \in AsyncSecondOutcomes}

\* The validator as get_validator() hands it out: constructed and
\* initialized.  The warm-up of initialize() has resolved the top domains;
\* of those the addresses of the model use gmail.com, whose entry is in the
\* cache when its query was answered.
WarmupCaches ==
    {<<>>,
     <<[key |-> <<"g","m","a","i","l",".","c","o","m">>, value |-> <<<<"m","x","1">>>>, expires_at |-> ASYNC_MX_CACHE_TTL]>>}

AsyncIdle ==
    /\ a_pools = [d \in AsyncDomains |-> <<>>]
    /\ a_last_request = [d \in AsyncDomains |-> 0]
    /\ a_runs = 0
    /\ a_pc = "idle"
    /\ a_raw = <<>>
    /\ a_result = async_init_result(<<>>)
    /\ a_mx_hosts = <<>>
    /\ a_dns = 0
    /\ a_log = <<>>

AsyncInit ==
    /\ a_mx_cache \in WarmupCaches
    /\ AsyncIdle

\* The validation goes on with the MX list: it returns, or it starts
\* _check_smtp.
AsyncContinueWithMx(result, mx_hosts) ==
    LET next == AsyncAfterMx(result, mx_hosts)
    IN  /\ a_result' = next.result
        /\ a_mx_hosts' = mx_hosts
        /\ a_pc' = IF next.done THEN "done" ELSE "smtp_wait"

\* validate_email(raw): _validate_single up to its first suspension.  With
\* the MX list in the cache _resolve_mx returns at once.
AsyncValidate(raw) ==
    /\ a_pc \in {"idle", "done"}
    /\ a_runs < MaxValidations
    /\ a_runs' = a_runs + 1
    /\ a_raw' = raw
    /\ a_dns' = 0
    /\ a_log' = <<>>
    /\ LET local == AsyncLocalChecks(raw)
           cached == MXCacheGet(a_mx_cache, AsyncDomainOf(local.result), now)
       IN  IF local.done
             THEN /\ a_result' = local.result
                  /\ a_mx_hosts' = <<>>
                  /\ a_pc' = "done"
                  /\ a_mx_cache' = a_mx_cache
           ELSE IF cached.hit
             THEN /\ AsyncContinueWithMx(local.result, cached.value)
                  /\ a_mx_cache' = a_mx_cache
           ELSE /\ a_result' = local.result
                /\ a_mx_hosts' = <<>>
                /\ a_pc' = "dns_wait"
                /\ a_mx_cache' = cached.cache
    /\ UNCHANGED <<now, a_pools, a_last_request, fast_vars, strict_vars, bulk_vars, dns_vars,
                   idem_vars, score_vars,
                   ext_vars>>

\* _resolve_mx: the MX query completes (answer, timeout or error); an
\* answer is cached; the validation goes on.
AsyncDnsAnswer(answer) ==
    /\ a_pc = "dns_wait"
    /\ LET resolved == AsyncResolvedMx(answer)
       IN  /\ a_mx_cache' = IF resolved.cached
                              THEN MXCacheSet(a_mx_cache, AsyncDomainOf(a_result),
                                              resolved.mx_list, now)
                              ELSE a_mx_cache
           /\ AsyncContinueWithMx(a_result, resolved.mx_list)
    /\ a_dns' = a_dns + 1
    /\ UNCHANGED <<now, a_pools, a_last_request, a_runs, a_raw, a_log,
                   fast_vars, strict_vars, bulk_vars, dns_vars,
                   idem_vars, score_vars,
                   ext_vars>>

\* _check_smtp returns (the throttler passed, the hosts tried in turn) and
\* the validation returns.
AsyncSmtpDone(plan) ==
    /\ a_pc = "smtp_wait"
    /\ LET domain == AsyncDomainOf(a_result)
           smtp == _check_smtp(a_mx_hosts, plan, a_pools[domain], now)
       IN  /\ a_last_request' = [a_last_request EXCEPT ![domain] = now]
           /\ a_pools' = [a_pools EXCEPT ![domain] = smtp.pool]
           /\ a_log' = smtp.log
           /\ a_result' = AsyncAfterSmtp(a_result, smtp.result)
    /\ a_pc' = "done"
    /\ UNCHANGED <<now, a_mx_cache, a_runs, a_raw, a_mx_hosts, a_dns,
                   fast_vars, strict_vars, bulk_vars, dns_vars,
                   idem_vars, score_vars,
                   ext_vars>>

AsyncNext ==
    \/ Tick
    \/ \E raw \in AsyncRawEmails : AsyncValidate(raw)
    \/ \E answer \in AsyncDnsAnswers : AsyncDnsAnswer(answer)
    \/ \E plan \in AsyncPlans(a_mx_hosts) : AsyncSmtpDone(plan)

(***************************************************************************)
(* strict_validator.py: StrictSMTPVerifier                                 *)
(*                                                                         *)
(* A result is the dict of _verify_single_mx; smtp_code 0 stands for None  *)
(* (no reply code is 0).  The dash of the timeout reasons is written "-".  *)
(***************************************************************************)
MAX_CONCURRENT_SMTP == 25
MAX_MX_PARALLEL == 2

STRICT_RISKY_CODES == {452, 552}
STRICT_NEUTRAL_CODES == {450, 451, 421}
STRICT_INVALID_CODES == {550, 551, 553}

INBOX_FULL_KEYWORDS ==
    {<<"m","a","i","l","b","o","x"," ","f","u","l","l">>, <<"q","u","o","t","a"," ","e","x","c","e","e","d","e","d">>, <<"o","v","e","r"," ","q","u","o","t","a">>, <<"s","t","o","r","a","g","e"," ","e","x","c","e","e","d","e","d">>,
     <<"m","a","i","l","b","o","x"," ","i","s"," ","f","u","l","l">>, <<"u","s","e","r"," ","o","v","e","r"," ","q","u","o","t","a">>, <<"i","n","s","u","f","f","i","c","i","e","n","t"," ","s","t","o","r","a","g","e">>}

StrictInterpretation(status, reason, retry_recommended) ==
    [status |-> status, reason |-> reason, retry_recommended |-> retry_recommended]

_interpret_response(code, message) ==
    LET message_lower == ToLower(message)
    IN  IF code = 250
          THEN StrictInterpretation("VALID", <<"E","m","a","i","l"," ","a","d","d","r","e","s","s"," ","i","s"," ","v","a","l","i","d"," ","a","n","d"," ","d","e","l","i","v","e","r","a","b","l","e">>, FALSE)
        ELSE IF code \in STRICT_RISKY_CODES
          THEN StrictInterpretation("RISKY", <<"M","a","i","l","b","o","x"," ","f","u","l","l"," ","o","r"," ","q","u","o","t","a"," ","e","x","c","e","e","d","e","d">>, TRUE)
        ELSE IF \E keyword \in INBOX_FULL_KEYWORDS : Contains(message_lower, keyword)
          THEN StrictInterpretation("RISKY", <<"M","a","i","l","b","o","x"," ","f","u","l","l"," ","o","r"," ","q","u","o","t","a"," ","e","x","c","e","e","d","e","d">>, TRUE)
        ELSE IF code \in STRICT_NEUTRAL_CODES
          THEN StrictInterpretation("NEUTRAL",
                   IF code = 450 THEN <<"M","a","i","l","b","o","x"," ","u","n","a","v","a","i","l","a","b","l","e"," ","(","g","r","e","y","l","i","s","t","e","d"," ","o","r"," ","t","e","m","p"," ","f","a","i","l",")">>
                   ELSE IF code = 451 THEN <<"L","o","c","a","l"," ","e","r","r","o","r"," ","i","n"," ","p","r","o","c","e","s","s","i","n","g"," ","(","g","r","e","y","l","i","s","t","e","d",")">>
                   ELSE <<"S","e","r","v","i","c","e"," ","t","e","m","p","o","r","a","r","i","l","y"," ","u","n","a","v","a","i","l","a","b","l","e"," ","(","t","h","r","o","t","t","l","e","d",")">>, TRUE)
        ELSE IF code \in STRICT_INVALID_CODES
          THEN StrictInterpretation("INVALID",
                   IF code = 550 THEN <<"M","a","i","l","b","o","x"," ","d","o","e","s"," ","n","o","t"," ","e","x","i","s","t">>
                   ELSE IF code = 551 THEN <<"U","s","e","r"," ","n","o","t"," ","l","o","c","a","l">>
                   ELSE <<"M","a","i","l","b","o","x"," ","n","a","m","e"," ","i","n","v","a","l","i","d">>, FALSE)
        ELSE IF code = 554
          THEN StrictInterpretation("INVALID", <<"M","a","i","l","b","o","x"," ","d","i","s","a","b","l","e","d"," ","o","r"," ","t","r","a","n","s","a","c","t","i","o","n"," ","f","a","i","l","e","d">>, FALSE)
        ELSE StrictInterpretation("NEUTRAL",
                                  <<"U","n","k","n","o","w","n"," ","S","M","T","P"," ","r","e","s","p","o","n","s","e"," ","c","o","d","e",":"," ">> \o DecimalDigits(code), TRUE)

StrictResult(smtp_attempted, smtp_code, smtp_message, interpretation) ==
    [smtp_attempted |-> smtp_attempted,
     smtp_code |-> smtp_code,
     smtp_message |-> smtp_message,
     status |-> interpretation.status,
     reason |-> interpretation.reason,
     retry_recommended |-> interpretation.retry_recommended]

\* How the session with one host ends.  The remote host and the network
\* decide it:
\*   "connect_timeout"  smtp.connect() timed out
\*   "connect_error"    smtp.connect() raised SMTPConnectError
\*   "connect_failed"   smtp.connect() raised another exception
\*   "command_timeout"  MAIL FROM or RCPT TO timed out
\*   "sender_refused"   MAIL FROM raised SMTPSenderRefused (code, message)
\*   "command_error"    MAIL FROM or RCPT TO raised another exception
\*   "response"         RCPT TO answered, or refused, with (code, message)
StrictFailureKinds ==
    {"connect_timeout", "connect_error", "connect_failed", "command_timeout",
     "command_error"}

StrictOutcome(kind, code, message) == [kind |-> kind, code |-> code, message |-> message]

\* (variant of _verify_single_mx: a command timeout reported as a rejection)
Strict_verify_single_mx_TimeoutInvalid(outcome) ==
    IF outcome.kind = "connect_timeout"
      THEN StrictResult(TRUE, 0, <<>>, StrictInterpretation("NEUTRAL",
               <<"S","M","T","P"," ","c","o","n","n","e","c","t","i","o","n"," ","t","i","m","e","o","u","t"," ","-"," ","s","e","r","v","e","r"," ","d","i","d"," ","n","o","t"," ","r","e","s","p","o","n","d">>, TRUE))
    ELSE IF outcome.kind = "response"
      THEN StrictResult(TRUE, outcome.code, outcome.message,
                        _interpret_response(outcome.code, outcome.message))
    ELSE IF outcome.kind = "command_timeout"
      THEN StrictResult(TRUE, 0, <<>>, StrictInterpretation("INVALID",
               <<"S","M","T","P"," ","t","i","m","e","o","u","t"," ","-"," ","s","e","r","v","e","r"," ","d","i","d"," ","n","o","t"," ","r","e","s","p","o","n","d">>, FALSE))
    ELSE IF outcome.kind = "sender_refused"
      THEN StrictResult(TRUE, outcome.code, outcome.message,
               StrictInterpretation("NEUTRAL",
                   <<"S","e","n","d","e","r"," ","r","e","f","u","s","e","d"," ","b","y"," ","s","e","r","v","e","r"," ","(","I","P"," ","r","e","p","u","t","a","t","i","o","n"," ","i","s","s","u","e",")">>, FALSE))
    ELSE IF outcome.kind = "connect_error"
      THEN StrictResult(TRUE, 0, <<>>, StrictInterpretation("NEUTRAL",
               <<"S","M","T","P"," ","c","o","n","n","e","c","t","i","o","n"," ","f","a","i","l","e","d">>, TRUE))
    ELSE StrictResult(TRUE, 0, <<>>, StrictInterpretation("NEUTRAL", <<"S","M","T","P"," ","e","r","r","o","r">>, TRUE))

\* StrictSMTPVerifier._verify_single_mx: the dict returned for a session
\* that ends with outcome
Strict_verify_single_mx(outcome) ==
    IF outcome.kind = "connect_timeout"
      THEN StrictResult(TRUE, 0, <<>>, StrictInterpretation("NEUTRAL",
               <<"S","M","T","P"," ","c","o","n","n","e","c","t","i","o","n"," ","t","i","m","e","o","u","t"," ","-"," ","s","e","r","v","e","r"," ","d","i","d"," ","n","o","t"," ","r","e","s","p","o","n","d">>, TRUE))
    ELSE IF outcome.kind = "response"
      THEN StrictResult(TRUE, outcome.code, outcome.message,
                        _interpret_response(outcome.code, outcome.message))
    ELSE IF outcome.kind = "command_timeout"
      THEN StrictResult(TRUE, 0, <<>>, StrictInterpretation("NEUTRAL",
               <<"S","M","T","P"," ","t","i","m","e","o","u","t"," ","-"," ","s","e","r","v","e","r"," ","d","i","d"," ","n","o","t"," ","r","e","s","p","o","n","d">>, TRUE))
    ELSE IF outcome.kind = "sender_refused"
      THEN StrictResult(TRUE, outcome.code, outcome.message,
               StrictInterpretation("NEUTRAL",
                   <<"S","e","n","d","e","r"," ","r","e","f","u","s","e","d"," ","b","y"," ","s","e","r","v","e","r"," ","(","I","P"," ","r","e","p","u","t","a","t","i","o","n"," ","i","s","s","u","e",")">>, FALSE))
    ELSE IF outcome.kind = "connect_error"
      THEN StrictResult(TRUE, 0, <<>>, StrictInterpretation("NEUTRAL",
               <<"S","M","T","P"," ","c","o","n","n","e","c","t","i","o","n"," ","f","a","i","l","e","d">>, TRUE))
    ELSE StrictResult(TRUE, 0, <<>>, StrictInterpretation("NEUTRAL", <<"S","M","T","P"," ","e","r","r","o","r">>, TRUE))

\* verify with no MX host
StrictNoHosts ==
    StrictResult(FALSE, 0, <<>>, StrictInterpretation("INVALID", <<"N","o"," ","M","X"," ","h","o","s","t","s"," ","a","v","a","i","l","a","b","l","e">>, FALSE))

\* verify when best_result is None at the end of the race
StrictAllFailed ==
    StrictResult(TRUE, 0, <<>>, StrictInterpretation("NEUTRAL", <<"A","l","l"," ","M","X"," ","h","o","s","t","s"," ","f","a","i","l","e","d">>, TRUE))

\* no value: best_result = None, no result returned yet, a task not yet done
StrictNone == [status |-> "None"]

RECURSIVE ProcessDone(_, _)
\* the loop going on after a definitive result, which becomes best_result
ProcessDone_NoReturn(results, best_result) ==
    [returned |-> FALSE,
     value |-> IF Len(results) = 0 THEN best_result ELSE results[Len(results)]]

\* The "for task in done" loop of verify over the results of the completed
\* tasks in the order of iteration.  [returned, value]: returned when a
\* definitive result is returned from the loop, value being that result;
\* otherwise value is best_result after the loop.
ProcessDone(results, best_result) ==
    IF Len(results) = 0 THEN [returned |-> FALSE, value |-> best_result]
    ELSE LET result == Head(results)
         IN  IF result.status \in {"VALID", "INVALID"}
               THEN [returned |-> TRUE, value |-> result]
             ELSE IF best_result.status = "None" \/ result.smtp_code # 0
               THEN ProcessDone(Tail(results), result)
             ELSE ProcessDone(Tail(results), best_result)

(***************************************************************************)
(* StrictSMTPVerifier.verify as a state machine.  The call suspends at the *)
(* semaphore, at the single session or at asyncio.wait; each session is a  *)
(* task that completes on its own.                                         *)
(***************************************************************************)
StrictMxLists == {<<>>, <<<<"m","x","1">>>>, <<<<"m","x","1">>, <<"m","x","2">>>>, <<<<"m","x","1">>, <<"m","x","2">>, <<"m","x","3">>>>}

StrictSmtpCodes == {250, 251, 421, 450, 451, 452, 500, 550, 551, 552, 553, 554}
StrictMessages == {<<>>, <<"M","a","i","l","b","o","x"," ","F","u","l","l">>}

StrictOutcomes ==
    {StrictOutcome(k, 0, <<>>) : k \in StrictFailureKinds}
      \cup {StrictOutcome("sender_refused", c, <<>>) : c \in {421, 550}}
      \cup {StrictOutcome("response", c, m) : c \in StrictSmtpCodes, m \in StrictMessages}

\* a task of verify: its state ("running", "done", "cancelled"), how its
\* session ended, its result, and whether verify has retrieved the result
StrictTask(state, outcome, result, seen) ==
    [state |-> state, outcome |-> outcome, result |-> result, seen |-> seen]

StrictRunning == StrictTask("running", StrictOutcome("none", 0, <<>>), StrictNone, FALSE)

StrictInit ==
    /\ s_permits = MAX_CONCURRENT_SMTP
    /\ s_runs = 0
    /\ s_pc = "idle"
    /\ s_hosts = <<>>
    /\ s_tasks = <<>>
    /\ s_best = StrictNone
    /\ s_result = StrictNone

\* verify(email, mx_hosts) up to its first suspension: the call returns at
\* once without hosts; else it takes a permit and starts the session of the
\* only host, or the tasks of the race.
StrictVerify(mx_hosts) ==
    /\ s_pc \in {"idle", "done"}
    /\ s_runs < MaxValidations
    /\ s_runs' = s_runs + 1
    /\ s_best' = StrictNone
    /\ IF Len(mx_hosts) = 0
         THEN /\ s_hosts' = <<>>
              /\ s_tasks' = <<>>
              /\ s_result' = StrictNoHosts
              /\ s_pc' = "done"
              /\ s_permits' = s_permits
         ELSE LET hosts_to_try == Slice(mx_hosts, 1, Min(Len(mx_hosts), MAX_MX_PARALLEL))
              IN  /\ s_permits > 0
                  /\ s_permits' = s_permits - 1
                  /\ s_hosts' = hosts_to_try
                  /\ s_tasks' = [i \in 1..Len(hosts_to_try) |-> StrictRunning]
                  /\ s_result' = StrictNone
                  /\ s_pc' = IF Len(hosts_to_try) = 1 THEN "single" ELSE "racing"
    /\ UNCHANGED <<now, fast_vars, async_vars, bulk_vars, dns_vars,
                   idem_vars, score_vars,
                   ext_vars>>

\* len(hosts_to_try) == 1: _verify_single_mx returns, verify returns its
\* result and leaves the semaphore.
StrictSingleReturns(outcome) ==
    /\ s_pc = "single"
    /\ LET result == Strict_verify_single_mx(outcome)
       IN  /\ s_tasks' = <<StrictTask("done", outcome, result, TRUE)>>
           /\ s_result' = result
    /\ s_pc' = "done"
    /\ s_permits' = s_permits + 1
    /\ UNCHANGED <<now, s_runs, s_hosts, s_best, fast_vars, async_vars, bulk_vars, dns_vars,
                   idem_vars, score_vars,
                   ext_vars>>

\* a task of the race completes: _verify_single_mx returns
StrictTaskCompletes(i, outcome) ==
    /\ s_pc = "racing"
    /\ i \in 1..Len(s_tasks)
    /\ s_tasks[i].state = "running"
    /\ s_tasks' = [s_tasks EXCEPT ![i] =
                       StrictTask("done", outcome, Strict_verify_single_mx(outcome), FALSE)]
    /\ UNCHANGED <<now, s_permits, s_runs, s_pc, s_hosts, s_best, s_result,
                   fast_vars, async_vars, bulk_vars, dns_vars,
                   idem_vars, score_vars,
                   ext_vars>>

\* the orders in which a set of tasks may be iterated
OrdersOf(S) ==
    {order \in [1..Cardinality(S) -> S] :
        \A i, j \in 1..Cardinality(S) : i # j => order[i] # order[j]}

\* asyncio.wait returns with the tasks completed since the last turn, and
\* verify runs to its next suspension: it returns a definitive result and
\* cancels the pending tasks, or returns best_result when no task is
\* pending, or waits again.
StrictWaitReturns(order) ==
    /\ s_pc = "racing"
    /\ LET done == {i \in 1..Len(s_tasks) : s_tasks[i].state = "done" /\ ~s_tasks[i].seen}
           pending == {i \in 1..Len(s_tasks) : s_tasks[i].state = "running"}
           loop == ProcessDone([k \in 1..Len(order) |-> s_tasks[order[k]].result], s_best)
       IN  /\ done # {}
           /\ order \in OrdersOf(done)
           /\ IF loop.returned
                THEN /\ s_tasks' = [i \in 1..Len(s_tasks) |->
                                       IF i \in pending
                                         THEN [s_tasks[i] EXCEPT !.state = "cancelled"]
                                       ELSE IF i \in done
                                         THEN [s_tasks[i] EXCEPT !.seen = TRUE]
                                       ELSE s_tasks[i]]
                     /\ s_result' = loop.value
                     /\ s_best' = s_best
                     /\ s_pc' = "done"
                     /\ s_permits' = s_permits + 1
              ELSE IF pending = {}
                THEN /\ s_tasks' = [i \in 1..Len(s_tasks) |-> [s_tasks[i] EXCEPT !.seen = TRUE]]
                     /\ s_result' = IF loop.value.status = "None" THEN StrictAllFailed
                                    ELSE loop.value
                     /\ s_best' = loop.value
                     /\ s_pc' = "done"
                     /\ s_permits' = s_permits + 1
              ELSE /\ s_tasks' = [i \in 1..Len(s_tasks) |->
                                     IF i \in done THEN [s_tasks[i] EXCEPT !.seen = TRUE]
                                     ELSE s_tasks[i]]
                   /\ s_result' = s_result
                   /\ s_best' = loop.value
                   /\ s_pc' = "racing"
                   /\ s_permits' = s_permits
    /\ UNCHANGED <<now, s_runs, s_hosts, fast_vars, async_vars, bulk_vars, dns_vars,
                   idem_vars, score_vars,
                   ext_vars>>

StrictNext ==
    \/ \E mx_hosts \in StrictMxLists : StrictVerify(mx_hosts)
    \/ \E outcome \in StrictOutcomes : StrictSingleReturns(outcome)
    \/ \E i \in 1..MAX_MX_PARALLEL, outcome \in StrictOutcomes : StrictTaskCompletes(i, outcome)
    \/ \E order \in UNION {[1..n -> 1..MAX_MX_PARALLEL] : n \in 1..MAX_MX_PARALLEL} :
          StrictWaitReturns(order)

(***************************************************************************)
(* strict_validator.py: validate_syntax, StrictDNSResolver and the result  *)
(* of StrictEmailValidator                                                 *)
(***************************************************************************)
STRICT_CACHE_TTL == 600

ROLE_PREFIXES ==
    {<<"a","d","m","i","n">>, <<"a","d","m","i","n","i","s","t","r","a","t","o","r">>, <<"r","o","o","t">>, <<"p","o","s","t","m","a","s","t","e","r">>, <<"h","o","s","t","m","a","s","t","e","r">>, <<"w","e","b","m","a","s","t","e","r">>,
     <<"s","u","p","p","o","r","t">>, <<"h","e","l","p">>, <<"i","n","f","o">>, <<"c","o","n","t","a","c","t">>, <<"s","a","l","e","s">>, <<"m","a","r","k","e","t","i","n","g">>,
     <<"b","i","l","l","i","n","g">>, <<"n","o","r","e","p","l","y">>, <<"n","o","-","r","e","p","l","y">>, <<"d","o","n","o","t","r","e","p","l","y">>, <<"a","b","u","s","e">>, <<"s","e","c","u","r","i","t","y">>,
     <<"h","r">>, <<"j","o","b","s">>, <<"c","a","r","e","e","r","s">>, <<"p","r","e","s","s">>, <<"m","e","d","i","a">>, <<"l","e","g","a","l">>, <<"c","o","m","p","l","i","a","n","c","e">>}

\* ^(?:label\.)+[a-zA-Z]{2,}$
StrictDomainPatternMatches(s) ==
    LET t == BeforeDollar(s)
        labels == SplitOn(t, ".")
        tld == labels[Len(labels)]
    IN  /\ Len(labels) >= 2
        /\ \A i \in 1..(Len(labels) - 1) : IsDomainLabel(labels[i])
        /\ Len(tld) >= 2
        /\ \A k \in 1..Len(tld) : tld[k] \in LowerLetters \cup UpperLetters

StrictSyntaxFail(reason) ==
    [status |-> "invalid", reason |-> reason, local_part |-> <<>>, domain |-> <<>>]

validate_syntax(email0) ==
    IF Len(email0) = 0 THEN StrictSyntaxFail(<<"E","m","p","t","y"," ","o","r"," ","i","n","v","a","l","i","d"," ","i","n","p","u","t">>)
    ELSE
      LET email == Strip(email0)
      IN  IF Len(email) > 320 THEN StrictSyntaxFail(<<"E","m","a","i","l"," ","e","x","c","e","e","d","s"," ","3","2","0"," ","c","h","a","r","a","c","t","e","r","s">>)
          ELSE IF CountChar(email, "@") # 1
            THEN StrictSyntaxFail(<<"M","u","s","t"," ","c","o","n","t","a","i","n"," ","e","x","a","c","t","l","y"," ","o","n","e"," ","@"," ","s","y","m","b","o","l">>)
          ELSE
            LET parts == SplitOn(email, "@")
                local_part == parts[1]
                domain == parts[2]
                labels == SplitOn(domain, ".")
                tld == labels[Len(labels)]
            IN  IF Len(local_part) = 0 THEN StrictSyntaxFail(<<"E","m","p","t","y"," ","l","o","c","a","l"," ","p","a","r","t">>)
                ELSE IF Len(local_part) > 64
                  THEN StrictSyntaxFail(<<"L","o","c","a","l"," ","p","a","r","t"," ","e","x","c","e","e","d","s"," ","6","4"," ","c","h","a","r","a","c","t","e","r","s">>)
                ELSE IF Len(domain) = 0 THEN StrictSyntaxFail(<<"E","m","p","t","y"," ","d","o","m","a","i","n">>)
                ELSE IF Len(domain) > 255
                  THEN StrictSyntaxFail(<<"D","o","m","a","i","n"," ","e","x","c","e","e","d","s"," ","2","5","5"," ","c","h","a","r","a","c","t","e","r","s">>)
                ELSE IF Contains(email, <<".", ".">>)
                  THEN StrictSyntaxFail(<<"C","o","n","s","e","c","u","t","i","v","e"," ","d","o","t","s"," ","n","o","t"," ","a","l","l","o","w","e","d">>)
                ELSE IF local_part[1] = "." \/ local_part[Len(local_part)] = "."
                  THEN StrictSyntaxFail(<<"L","o","c","a","l"," ","p","a","r","t"," ","c","a","n","n","o","t"," ","s","t","a","r","t"," ","o","r"," ","e","n","d"," ","w","i","t","h"," ","d","o","t">>)
                ELSE IF domain[1] = "." \/ domain[Len(domain)] = "."
                  THEN StrictSyntaxFail(<<"D","o","m","a","i","n"," ","c","a","n","n","o","t"," ","s","t","a","r","t"," ","o","r"," ","e","n","d"," ","w","i","t","h"," ","d","o","t">>)
                ELSE IF domain[1] = "-" \/ domain[Len(domain)] = "-"
                  THEN StrictSyntaxFail(<<"D","o","m","a","i","n"," ","c","a","n","n","o","t"," ","s","t","a","r","t"," ","o","r"," ","e","n","d"," ","w","i","t","h"," ","h","y","p","h","e","n">>)
                ELSE IF ~LocalPatternMatches(local_part)
                  THEN StrictSyntaxFail(<<"I","n","v","a","l","i","d"," ","c","h","a","r","a","c","t","e","r","s"," ","i","n"," ","l","o","c","a","l"," ","p","a","r","t">>)
                ELSE IF ~StrictDomainPatternMatches(domain)
                  THEN StrictSyntaxFail(<<"I","n","v","a","l","i","d"," ","d","o","m","a","i","n"," ","f","o","r","m","a","t">>)
                ELSE IF Len(tld) < 2 THEN StrictSyntaxFail(<<"I","n","v","a","l","i","d"," ","T","L","D">>)
                ELSE [status |-> "valid", reason |-> <<"S","y","n","t","a","x"," ","v","a","l","i","d">>,
                      local_part |-> ToLower(local_part), domain |-> ToLower(domain)]

\* The two lookups of check_domain_and_mx as they complete: mx is the
\* completion of the MX query (kind "answer" with its records, "timeout" or
\* "error"), a_exists the value of _check_a_record.
StrictLookup(mx, a_exists) == [mx |-> mx, a_exists |-> a_exists]

\* _resolve_mx_internal: (mx_hosts, mx_found)
_resolve_mx_internal(mx) ==
    IF mx.kind = "answer" /\ Len(mx.records) > 0
      THEN [mx_hosts |-> MxList(mx.records), mx_found |-> TRUE]
      ELSE [mx_hosts |-> <<>>, mx_found |-> FALSE]

DomainAndMx(domain_status, domain_reason, mx_status, mx_reason, mx_hosts) ==
    [domain_status |-> domain_status, domain_reason |-> domain_reason,
     mx_status |-> mx_status, mx_reason |-> mx_reason, mx_hosts |-> mx_hosts]

\* check_domain_and_mx after a cache miss: the tuple it caches and returns
check_domain_and_mx(domain, lookup) ==
    LET mx_result == _resolve_mx_internal(lookup.mx)
        domain_exists ==
            mx_result.mx_found \/ lookup.a_exists \/ Len(mx_result.mx_hosts) > 0
    IN  IF ~domain_exists
          THEN DomainAndMx("invalid", <<"D","o","m","a","i","n"," ","d","o","e","s"," ","n","o","t"," ","e","x","i","s","t">>, "invalid",
                           <<"N","o"," ","M","X"," ","r","e","c","o","r","d","s">>, <<>>)
        ELSE IF Len(mx_result.mx_hosts) = 0
          THEN IF lookup.a_exists
                 THEN DomainAndMx("valid", <<"D","o","m","a","i","n"," ","e","x","i","s","t","s">>, "valid",
                                  <<"M","X"," ","r","e","c","o","r","d","s"," ","f","o","u","n","d">>, <<domain>>)
                 ELSE DomainAndMx("valid", <<"D","o","m","a","i","n"," ","e","x","i","s","t","s">>, "invalid",
                                  <<"N","o"," ","M","X"," ","r","e","c","o","r","d","s">>, <<>>)
        ELSE DomainAndMx("valid", <<"D","o","m","a","i","n"," ","e","x","i","s","t","s">>, "valid", <<"M","X"," ","r","e","c","o","r","d","s"," ","f","o","u","n","d">>,
                         mx_result.mx_hosts)

\* StrictDNSResolver._is_cached on _combined_cache: [hit, value, cache]; an
\* expired entry is deleted
StrictIsCached(cache, key, time) ==
    IF CacheHas(cache, key)
      THEN LET entry == CacheEntryOf(cache, key)
           IN  IF time < entry.expires_at
                 THEN [hit |-> TRUE, value |-> entry.value, cache |-> cache]
                 ELSE [hit |-> FALSE, value |-> <<>>, cache |-> CacheWithout(cache, key)]
      ELSE [hit |-> FALSE, value |-> <<>>, cache |-> cache]

\* self._combined_cache[domain] = (result, time.time() + self._cache_ttl)
StrictCacheSet(cache, key, value, time) ==
    LET entry == [key |-> key, value |-> value, expires_at |-> time + STRICT_CACHE_TTL]
    IN  IF CacheHas(cache, key)
          THEN [i \in 1..Len(cache) |-> IF cache[i].key = key THEN entry ELSE cache[i]]
          ELSE Append(cache, entry)

\* resolve_one of resolve_batch: (status, reason, mx_hosts)
resolve_one(checked) ==
    IF checked.domain_status # "valid"
      THEN [status |-> "invalid", reason |-> checked.domain_reason, mx_hosts |-> <<>>]
    ELSE IF checked.mx_status # "valid"
      THEN [status |-> "invalid", reason |-> checked.mx_reason, mx_hosts |-> <<>>]
    ELSE [status |-> checked.mx_status, reason |-> checked.mx_reason,
          mx_hosts |-> checked.mx_hosts]

\* StrictEmailValidator._init_result
strict_init_result(email) ==
    [email |-> email,
     syntax |-> "invalid",
     domain |-> "invalid",
     mx |-> "invalid",
     smtp_attempted |-> FALSE,
     smtp_code |-> 0,
     status |-> "INVALID",
     reason |-> <<>>,
     retry_recommended |-> FALSE,
     local_part |-> <<>>,
     domain_name |-> <<>>,
     mx_hosts |-> <<>>,
     is_disposable |-> FALSE,
     is_blacklisted |-> FALSE,
     is_role_based |-> FALSE]

Clamp(lo, hi, n) == IF n < lo THEN lo ELSE IF n > hi THEN hi ELSE n

\* StrictEmailValidator._calculate_score
strict_calculate_score(result) ==
    Clamp(0, 100,
          (IF result.syntax = "valid" THEN 20 ELSE 0)
        + (IF result.domain = "valid" THEN 20 ELSE 0)
        + (IF result.mx = "valid" THEN 20 ELSE 0)
        + (IF result.status = "VALID" THEN 40
           ELSE IF result.status = "RISKY" THEN 20
           ELSE IF result.status = "NEUTRAL" THEN 10 ELSE 0)
        - (IF result.is_disposable THEN 30 ELSE 0)
        - (IF result.is_blacklisted THEN 40 ELSE 0)
        - (IF result.is_role_based THEN 10 ELSE 0))

\* StrictEmailValidator._get_grade
strict_get_grade(score) ==
    IF score >= 90 THEN "A+"
    ELSE IF score >= 80 THEN "A"
    ELSE IF score >= 70 THEN "B"
    ELSE IF score >= 60 THEN "C"
    ELSE IF score >= 50 THEN "D"
    ELSE "F"

\* StrictEmailValidator._finalize_result
_finalize_result(result) ==
    LET status == result.status
        flagged == [is_valid |-> status = "VALID",
                    is_deliverable |-> status = "VALID",
                    is_risky |-> status = "RISKY",
                    is_neutral |-> status = "NEUTRAL",
                    is_unknown |-> status = "NEUTRAL",
                    is_inbox_full |-> status = "RISKY"
                                        /\ Contains(ToLower(result.reason), <<"f","u","l","l">>),
                    syntax_valid |-> IF result.syntax = "valid" THEN "Valid" ELSE "Not Valid",
                    domain_valid |-> IF result.domain = "valid" THEN "Valid" ELSE "Not Valid",
                    mx_record_exists |-> IF result.mx = "valid" THEN "Valid" ELSE "Not Valid",
                    smtp_valid |-> IF status = "VALID" THEN "Valid"
                                   ELSE IF status = "NEUTRAL" THEN "Unknown"
                                   ELSE "Not Valid",
                    status_lowercase |-> IF status = "VALID" THEN "safe"
                                         ELSE IF status = "INVALID" THEN "invalid"
                                         ELSE IF status = "RISKY" THEN "risky"
                                         ELSE "unknown"] @@ result
        role == IF flagged.is_role_based /\ status = "VALID"
                  THEN [flagged EXCEPT !.reason = <<"V","a","l","i","d"," ","e","m","a","i","l"," ","(","r","o","l","e","-","b","a","s","e","d"," ","a","d","d","r","e","s","s",")">>]
                  ELSE flagged
        disposable == IF role.is_disposable
                        THEN [role EXCEPT !.status = "RISKY",
                                          !.reason = <<"D","i","s","p","o","s","a","b","l","e"," ","e","m","a","i","l"," ","d","o","m","a","i","n">>,
                                          !.is_risky = TRUE]
                        ELSE role
        blacklisted == IF disposable.is_blacklisted
                         THEN [disposable EXCEPT !.status = "RISKY",
                                                 !.reason = <<"B","l","a","c","k","l","i","s","t","e","d"," ","d","o","m","a","i","n">>,
                                                 !.is_risky = TRUE]
                         ELSE disposable
        score == strict_calculate_score(blacklisted)
    IN  [deliverability_score |-> score, quality_grade |-> strict_get_grade(score)]
            @@ blacklisted

\* validate_one / validate_email return at a failed stage
StrictStageFailed(result, reason) ==
    _finalize_result([result EXCEPT !.status = "INVALID", !.reason = reason,
                                    !.smtp_attempted = FALSE])

\* validate_email up to the SMTP verification: stages 1 to 3, checked being
\* what check_domain_and_mx returned for the domain.  [done, result,
\* mx_hosts]: done when validate_email returns here.
StrictEmailStages(email0, lookup) ==
    LET email == ToLower(Strip(email0))
        syntax == validate_syntax(email)
        result == [strict_init_result(email) EXCEPT !.syntax = syntax.status]
        checked == check_domain_and_mx(syntax.domain, lookup)
        staged == [result EXCEPT !.domain = checked.domain_status,
                                 !.mx = checked.mx_status]
    IN  IF syntax.status # "valid"
          THEN [done |-> TRUE, result |-> StrictStageFailed(result, syntax.reason),
                mx_hosts |-> <<>>]
        ELSE IF checked.domain_status # "valid"
          THEN [done |-> TRUE,
                result |-> StrictStageFailed(staged, checked.domain_reason),
                mx_hosts |-> <<>>]
        ELSE IF checked.mx_status # "valid"
          THEN [done |-> TRUE, result |-> StrictStageFailed(staged, checked.mx_reason),
                mx_hosts |-> <<>>]
        ELSE [done |-> FALSE, result |-> staged, mx_hosts |-> checked.mx_hosts]

\* (variant of StrictStages: an address whose domain has no valid MX goes on
\* to the SMTP verification)
StrictStages_NoMxGate(email, dns_results) ==
    LET syntax == validate_syntax(email)
        result == [strict_init_result(email) EXCEPT !.syntax = syntax.status]
    IN  IF syntax.status # "valid"
          THEN [done |-> TRUE, result |-> StrictStageFailed(result, syntax.reason),
                mx_hosts |-> <<>>]
        ELSE IF syntax.domain \in DOMAIN dns_results
          THEN LET dns == dns_results[syntax.domain]
               IN  [done |-> FALSE,
                    result |-> [result EXCEPT
                                   !.domain = IF dns.status = "valid" \/ Len(dns.mx_hosts) > 0
                                                THEN "valid" ELSE "invalid",
                                   !.mx = dns.status],
                    mx_hosts |-> dns.mx_hosts]
        ELSE [done |-> TRUE,
              result |-> StrictStageFailed(result, <<"D","o","m","a","i","n"," ","v","a","l","i","d","a","t","i","o","n"," ","f","a","i","l","e","d">>),
              mx_hosts |-> <<>>]

\* validate_one of validate_bulk up to the SMTP verification: stages 1 to 3
\* from syntax_results and dns_results (a function of the resolved
\* domains).  [done, result, mx_hosts]: done when validate_one returns here.
StrictStages(email, dns_results) ==
    LET syntax == validate_syntax(email)
        result == [strict_init_result(email) EXCEPT !.syntax = syntax.status]
    IN  IF syntax.status # "valid"
          THEN [done |-> TRUE, result |-> StrictStageFailed(result, syntax.reason),
                mx_hosts |-> <<>>]
        ELSE IF syntax.domain \in DOMAIN dns_results
          THEN LET dns == dns_results[syntax.domain]
                   staged == [result EXCEPT
                                 !.domain = IF dns.status = "valid" \/ Len(dns.mx_hosts) > 0
                                              THEN "valid" ELSE "invalid",
                                 !.mx = dns.status]
               IN  IF dns.status # "valid"
                     THEN [done |-> TRUE, result |-> StrictStageFailed(staged, dns.reason),
                           mx_hosts |-> <<>>]
                     ELSE [done |-> FALSE, result |-> staged, mx_hosts |-> dns.mx_hosts]
        ELSE [done |-> TRUE,
              result |-> StrictStageFailed(result, <<"D","o","m","a","i","n"," ","v","a","l","i","d","a","t","i","o","n"," ","f","a","i","l","e","d">>),
              mx_hosts |-> <<>>]

\* validate_one after _smtp.verify returned smtp_result
StrictAfterSmtp(result, mx_hosts, smtp_result) ==
    LET syntax == validate_syntax(result.email)
        local_part == syntax.local_part
        domain == syntax.domain
    IN  _finalize_result(
            [result EXCEPT !.smtp_attempted = smtp_result.smtp_attempted,
                           !.smtp_code = smtp_result.smtp_code,
                           !.status = smtp_result.status,
                           !.reason = smtp_result.reason,
                           !.retry_recommended = smtp_result.retry_recommended,
                           !.local_part = local_part,
                           !.domain_name = domain,
                           !.mx_hosts = mx_hosts,
                           !.is_disposable = domain \in DISPOSABLE_DOMAINS,
                           !.is_blacklisted = domain \in BLACKLIST_DOMAINS,
                           !.is_role_based = SplitOn(local_part, "+")[1] \in ROLE_PREFIXES])

\* the result validate_bulk records for an address whose validation raised
\* (str(result) is the text of the exception)
StrictErrorResult(email, text) ==
    _finalize_result([strict_init_result(email) EXCEPT
                         !.status = "NEUTRAL",
                         !.reason = <<"V","a","l","i","d","a","t","i","o","n"," ","e","r","r","o","r",":"," ">> \o text,
                         !.retry_recommended = TRUE])

(***************************************************************************)
(* validate_bulk of the three validators as a state machine.               *)
(*                                                                         *)
(* A call dedupes its input, resolves the domains of the addresses         *)
(* (asyncio.gather), runs one task per address (asyncio.gather with        *)
(* return_exceptions) and builds the list it returns.  A task is the       *)
(* validation of one address; it suspends where the single validation      *)
(* does and may raise wherever it stands.  The SMTP sessions of concurrent *)
(* tasks are taken one at a time.  A batch of the model fits in one chunk  *)
(* of CHUNK_SIZE = 500 addresses and passes no batch_id.                         *)
(***************************************************************************)
\* asyncio.gather(*tasks, return_exceptions=...) of validate_bulk
\* (variant: exceptions propagate)
GATHER_RETURN_EXCEPTIONS_Off == FALSE

GATHER_RETURN_EXCEPTIONS == TRUE

RECURSIVE Dedupe(_, _)
\* list(dict.fromkeys(keys)): the first occurrence of each key, in order
Dedupe(keys, seen) ==
    IF Len(keys) = 0 THEN <<>>
    ELSE IF Head(keys) \in seen THEN Dedupe(Tail(keys), seen)
    ELSE <<Head(keys)>> \o Dedupe(Tail(keys), seen \cup {Head(keys)})

\* (variant of unique_emails: blank elements kept)
unique_emails_KeepBlank(emails) ==
    Dedupe([i \in 1..Len(emails) |-> CleanEmail(emails[i])], {})

\* unique_emails of validate_bulk: email.strip().lower() of the elements
\* with a non-blank text
unique_emails(emails) ==
    LET kept == SelectSeq(emails, LAMBDA email : Len(Strip(email)) > 0)
    IN  Dedupe([i \in 1..Len(kept) |-> CleanEmail(kept[i])], {})

\* the domains validate_bulk resolves before the per-address work
BulkDomains(which, unique) ==
    IF which = "strict"
      THEN {validate_syntax(unique[i]).domain :
                i \in {k \in 1..Len(unique) : validate_syntax(unique[k]).status = "valid"}}
      ELSE {SplitOn(unique[i], "@")[2] :
                i \in {k \in 1..Len(unique) : Contains(unique[k], <<"@">>)}}

\* the cache of the validator called
BulkCache(which) ==
    IF which = "fast" THEN mx_cache
    ELSE IF which = "async" THEN a_mx_cache
    ELSE s_combined_cache

\* the cache lookup that opens a resolution
BulkCacheGet(which, cache, domain, time) ==
    IF which = "fast" THEN FastCacheGet(cache, domain, time)
    ELSE IF which = "async" THEN MXCacheGet(cache, domain, time)
    ELSE StrictIsCached(cache, domain, time)

RECURSIVE BulkPurged(_, _, _, _)
\* the cache after the lookups of the domains ds (expired entries deleted)
BulkPurged(which, cache, ds, time) ==
    IF ds = {} THEN cache
    ELSE LET d == CHOOSE x \in ds : TRUE
         IN  BulkPurged(which, BulkCacheGet(which, cache, d, time).cache, ds \ {d}, time)

\* the cache after the resolution of domain completed with lookup
BulkCacheAfter(which, cache, domain, lookup, time) ==
    IF which = "fast"
      THEN LET resolved == ResolvedMx(lookup.mx)
           IN  FastCacheSet(cache, MX_CACHE_MAX_SIZE, domain, resolved.mx_list,
                            resolved.ttl, time)
    ELSE IF which = "async"
      THEN LET resolved == AsyncResolvedMx(lookup.mx)
           IN  IF resolved.cached
                 THEN MXCacheSet(cache, domain, resolved.mx_list, time)
                 ELSE cache
    ELSE StrictCacheSet(cache, domain, check_domain_and_mx(domain, lookup), time)

\* a task of the gather: state is "new" (not yet run), "dns_wait",
\* "smtp_wait", "catchall_wait", "done" (returned result) or "raised"
\* (raised the exception error)
BulkTask(state, result, mx_hosts, error) ==
    [state |-> state, result |-> result, mx_hosts |-> mx_hosts, error |-> error]

BulkNoResult == [status |-> "None"]
BulkNoError == [text |-> "", chars |-> <<>>]

BulkNewTask == BulkTask("new", BulkNoResult, <<>>, BulkNoError)

\* The exceptions a validation may raise: str(exception), as a text and as
\* its characters.
BulkErrors ==
    {BulkNoError, [text |-> "connection reset", chars |-> <<"c","o","n","n","e","c","t","i","o","n"," ","r","e","s","e","t">>]}

\* a task that returns (next.done) or goes on to the SMTP verification
BulkTaskOn(next, mx_hosts) ==
    BulkTask(IF next.done THEN "done" ELSE "smtp_wait", next.result, mx_hosts,
             BulkNoError)

\* a task that goes on with the MX list of its domain
BulkAfterMx(which, result, mx_hosts) ==
    IF which = "fast" THEN BulkTaskOn(AfterMx(result, mx_hosts), mx_hosts)
    ELSE BulkTaskOn(AsyncAfterMx(result, mx_hosts), mx_hosts)

\* A task runs up to its first suspension.  [task, cache]: the task then,
\* and the cache of the validator.  local is what the checks before the MX
\* lookup come to, cached the lookup of the domain in the cache.
BulkTaskLookedUp(which, local, cached, cache) ==
    IF local.done
      THEN [task |-> BulkTask("done", local.result, <<>>, BulkNoError), cache |-> cache]
    ELSE IF cached.hit
      THEN [task |-> BulkAfterMx(which, local.result, cached.value), cache |-> cache]
    ELSE [task |-> BulkTask("dns_wait", local.result, <<>>, BulkNoError),
          cache |-> cached.cache]

FastTaskChecked(local, cache, time) ==
    BulkTaskLookedUp("fast", local,
                     FastCacheGet(cache, DomainOf(local.result), time), cache)

FastTaskStart(email, cache, time) == FastTaskChecked(LocalChecks(email), cache, time)

AsyncTaskChecked(local, cache, time) ==
    BulkTaskLookedUp("async", local,
                     MXCacheGet(cache, IF local.done THEN <<>>
                                       ELSE AsyncDomainOf(local.result), time),
                     cache)

AsyncTaskStart(email, cache, time) ==
    AsyncTaskChecked(AsyncLocalChecks(email), cache, time)

StrictTaskStaged(staged, cache) ==
    [task |-> BulkTask(IF staged.done THEN "done" ELSE "smtp_wait",
                       staged.result, staged.mx_hosts, BulkNoError),
     cache |-> cache]

StrictTaskStart(email, cache, dns_results) ==
    StrictTaskStaged(StrictStages(email, dns_results), cache)

BulkTaskStart(which, email, cache, dns_results, time) ==
    IF which = "fast" THEN FastTaskStart(email, cache, time)
    ELSE IF which = "async" THEN AsyncTaskStart(email, cache, time)
    ELSE StrictTaskStart(email, cache, dns_results)

\* (variant of FastErrorResult: the keys of the display win over those of
\* _init_result)
FastErrorResult_StatusLast(email, error) ==
    [email |-> email, status |-> "Error", reason |-> error.text, is_valid |-> FALSE]
        @@ _init_result(email)

\* the dict validate_bulk appends for a task that raised: of the keys
\* written twice in the dict display the later one stays
FastErrorResult(email, error) ==
    _init_result(email)
        @@ [email |-> email, status |-> "Error", reason |-> error.text, is_valid |-> FALSE]

AsyncErrorResult(email, error) ==
    [email |-> email, status |-> "Error", reason |-> error.text, is_valid |-> FALSE]

BulkErrorResult(which, email, error) ==
    IF which = "fast" THEN FastErrorResult(email, error)
    ELSE IF which = "async" THEN AsyncErrorResult(email, error)
    ELSE StrictErrorResult(email, error.chars)

\* inputs: how a resolution completes
BulkMxAnswers ==
    {[kind |-> "answer", records |-> <<[priority |-> 10, host |-> <<"m","x","1",".">>]>>],
     [kind |-> "answer", records |-> <<>>],
     [kind |-> "timeout", records |-> <<>>]}

BulkLookups(which) ==
    {StrictLookup(mx, a_exists) :
        mx \in BulkMxAnswers, a_exists \in IF which = "strict" THEN BOOLEAN ELSE {FALSE}}

\* inputs: what the SMTP verification of an address comes to
BulkFastHostPlans ==
    {<<Response(250, <<>>)>>, <<Response(550, <<>>)>>, <<Response(554, <<>>)>>,
     <<Failure("connect_timeout")>>}

BulkFastPlans(mx_hosts) ==
    {[i \in 1..Min(Len(mx_hosts), MAX_MX_HOSTS_TO_TRY) |-> p] : p \in BulkFastHostPlans}

BulkSyntheticPlans(mx_hosts) ==
    {[i \in 1..Min(Len(mx_hosts), MAX_MX_HOSTS_TO_TRY) |-> <<o>>] :
        o \in {Response(250, <<>>), Response(550, <<>>)}}

BulkAsyncPlans ==
    {<<AsyncOutcome("ok", "ok", "response", 250)>>,
     <<AsyncOutcome("ok", "ok", "response", 550)>>,
     <<AsyncOutcome("timeout", "timeout", "response", 0)>>}

BulkStrictResults ==
    {Strict_verify_single_mx(o) :
        o \in {StrictOutcome("response", 250, <<>>), StrictOutcome("response", 550, <<>>),
               StrictOutcome("connect_timeout", 0, <<>>)}}

BulkSmtpReplies(which, mx_hosts) ==
    IF which = "fast" THEN BulkFastPlans(mx_hosts)
    ELSE IF which = "async" THEN BulkAsyncPlans
    ELSE BulkStrictResults

BulkInit ==
    /\ s_combined_cache = <<>>
    /\ b_which = "none"
    /\ b_pc = "idle"
    /\ b_emails = <<>>
    /\ b_unique = <<>>
    /\ b_pending = {}
    /\ b_dns_results = <<>>
    /\ b_tasks = <<>>
    /\ b_queries = 0
    /\ b_results = <<>>

\* the caches of the three validators, whichever is called
BulkCachesBecome(which, cache) ==
    /\ mx_cache' = IF which = "fast" THEN cache ELSE mx_cache
    /\ a_mx_cache' = IF which = "async" THEN cache ELSE a_mx_cache
    /\ s_combined_cache' = IF which = "strict" THEN cache ELSE s_combined_cache

\* the variables of the call other than its tasks
BulkCallUnchanged ==
    UNCHANGED <<s_combined_cache, b_which, b_pc, b_emails, b_unique, b_pending,
                b_dns_results, b_queries, b_results>>

BulkRestUnchanged ==
    UNCHANGED <<now, f_runs, f_pc, f_raw, f_result, f_mx_hosts, f_dns, f_plan, f_log,
                f_ca_log, a_runs, a_pc, a_raw, a_result, a_mx_hosts, a_dns, a_log,
                strict_vars, dns_vars, idem_vars, score_vars,
                   ext_vars>>

\* dns_results of the strict validate_bulk for the domains resolved so far
BulkDnsResults(which, cache, ds) ==
    IF which = "strict"
      THEN [d \in ds |-> resolve_one(CacheEntryOf(cache, d).value)]
      ELSE <<>>

\* validate_bulk(emails) up to its first suspension: the input is deduped
\* and the resolutions of the domains not in the cache are started; with
\* none to start the tasks of the addresses are started.
BulkStart(which, emails) ==
    /\ b_pc = "idle"
    /\ LET unique == unique_emails(emails)
           domains == BulkDomains(which, unique)
           cache == BulkPurged(which, BulkCache(which), domains, now)
           uncached == {d \in domains : ~BulkCacheGet(which, cache, d, now).hit}
       IN  /\ b_which' = which
           /\ b_emails' = emails
           /\ b_unique' = unique
           /\ b_pending' = uncached
           /\ b_queries' = Cardinality(uncached)
           /\ BulkCachesBecome(which, cache)
           /\ b_dns_results' = BulkDnsResults(which, cache, domains \ uncached)
           /\ b_pc' = IF uncached = {} THEN "validating" ELSE "resolving"
           /\ b_tasks' = IF uncached = {} THEN [i \in 1..Len(unique) |-> BulkNewTask]
                         ELSE <<>>
    /\ UNCHANGED <<catchall_cache, a_pools, a_last_request, b_results>>
    /\ BulkRestUnchanged

\* The resolution of one domain completes (resolve_mx, _resolve_mx or
\* check_domain_and_mx); after the last one the tasks of the addresses are
\* started.
BulkResolved(domain, lookup) ==
    /\ b_pc = "resolving"
    /\ domain \in b_pending
    /\ LET cache == BulkCacheAfter(b_which, BulkCache(b_which), domain, lookup, now)
       IN  /\ BulkCachesBecome(b_which, cache)
           /\ b_dns_results' =
                 IF b_which = "strict"
                   THEN [d \in DOMAIN b_dns_results \cup {domain} |->
                            IF d = domain THEN resolve_one(CacheEntryOf(cache, d).value)
                            ELSE b_dns_results[d]]
                   ELSE b_dns_results
    /\ b_pending' = b_pending \ {domain}
    /\ b_pc' = IF b_pending' = {} THEN "validating" ELSE "resolving"
    /\ b_tasks' = IF b_pending' = {} THEN [i \in 1..Len(b_unique) |-> BulkNewTask]
                  ELSE <<>>
    /\ UNCHANGED <<catchall_cache, a_pools, a_last_request, b_which, b_emails,
                   b_unique, b_queries, b_results>>
    /\ BulkRestUnchanged

\* the task of address i runs up to its first suspension; without the MX
\* list of its domain in the cache it sends a query
BulkTaskRuns(i) ==
    /\ b_pc = "validating"
    /\ b_tasks[i].state = "new"
    /\ \E step \in {BulkTaskStart(b_which, b_unique[i], BulkCache(b_which),
                                  b_dns_results, now)} :
           /\ b_tasks' = [b_tasks EXCEPT ![i] = step.task]
           /\ BulkCachesBecome(b_which, step.cache)
           /\ b_queries' = b_queries + (IF step.task.state = "dns_wait" THEN 1 ELSE 0)
    /\ UNCHANGED <<catchall_cache, a_pools, a_last_request, b_which, b_pc, b_emails,
                   b_unique, b_pending, b_dns_results, b_results>>
    /\ BulkRestUnchanged

\* the MX query of the task of address i completes
BulkTaskMx(i, lookup) ==
    /\ b_pc = "validating"
    /\ b_tasks[i].state = "dns_wait"
    /\ LET result == b_tasks[i].result
           domain == IF b_which = "fast" THEN DomainOf(result) ELSE AsyncDomainOf(result)
           cache == BulkCacheAfter(b_which, BulkCache(b_which), domain, lookup, now)
           mx_list == IF b_which = "fast" THEN ResolvedMx(lookup.mx).mx_list
                      ELSE AsyncResolvedMx(lookup.mx).mx_list
       IN  /\ BulkCachesBecome(b_which, cache)
           /\ b_tasks' = [b_tasks EXCEPT ![i] = BulkAfterMx(b_which, result, mx_list)]
    /\ UNCHANGED <<catchall_cache, a_pools, a_last_request, b_which, b_pc, b_emails,
                   b_unique, b_pending, b_dns_results, b_queries, b_results>>
    /\ BulkRestUnchanged

\* the SMTP verification of address i returns (verify_smtp, _check_smtp or
\* verify); the fast validation goes on to check_catchall, which returns at
\* once with a cached verdict
BulkTaskSmtp(i, reply) ==
    /\ b_pc = "validating"
    /\ b_tasks[i].state = "smtp_wait"
    /\ LET task == b_tasks[i]
       IN  IF b_which = "fast"
             THEN \E next \in {AfterSmtp(task.result,
                                         verify_smtp(task.mx_hosts,
                                                     PIPELINE_RETRY_GREYLISTING,
                                                     reply).result)},
                     cached \in {FastCacheGet(catchall_cache, DomainOf(task.result), now)} :
                      /\ b_tasks' =
                            [b_tasks EXCEPT ![i] =
                                IF next.done
                                  THEN BulkTask("done", next.result, task.mx_hosts,
                                                BulkNoError)
                                ELSE IF cached.hit
                                  THEN BulkTask("done",
                                                AfterCatchall(next.result, cached.value),
                                                task.mx_hosts, BulkNoError)
                                ELSE BulkTask("catchall_wait", next.result,
                                              task.mx_hosts, BulkNoError)]
                      /\ catchall_cache' = IF next.done THEN catchall_cache
                                           ELSE cached.cache
                      /\ UNCHANGED <<a_pools, a_last_request>>
           ELSE IF b_which = "async"
             THEN \E domain \in {AsyncDomainOf(task.result)} :
                  \E smtp \in {_check_smtp(task.mx_hosts, reply, a_pools[domain], now)} :
                      /\ a_last_request' = [a_last_request EXCEPT ![domain] = now]
                      /\ a_pools' = [a_pools EXCEPT ![domain] = smtp.pool]
                      /\ b_tasks' =
                            [b_tasks EXCEPT ![i] =
                                BulkTask("done", AsyncAfterSmtp(task.result, smtp.result),
                                         task.mx_hosts, BulkNoError)]
                      /\ UNCHANGED catchall_cache
           ELSE /\ b_tasks' =
                      [b_tasks EXCEPT ![i] =
                          BulkTask("done",
                                   StrictAfterSmtp(task.result, task.mx_hosts, reply),
                                   task.mx_hosts, BulkNoError)]
                /\ UNCHANGED <<catchall_cache, a_pools, a_last_request>>
    /\ UNCHANGED <<mx_cache, a_mx_cache>>
    /\ BulkCallUnchanged
    /\ BulkRestUnchanged

\* check_catchall of the fast validation of address i: the two probes of
\* random addresses have completed; the verdict is cached
BulkTaskCatchall(i, plan1, plan2) ==
    /\ b_pc = "validating"
    /\ b_tasks[i].state = "catchall_wait"
    /\ \E task \in {b_tasks[i]} :
       \E is_catchall \in {verify_smtp(task.mx_hosts, FALSE, plan1).result.valid
                             /\ verify_smtp(task.mx_hosts, FALSE, plan2).result.valid} :
           /\ catchall_cache' = FastCacheSet(catchall_cache, CATCHALL_CACHE_MAX_SIZE,
                                             DomainOf(task.result), is_catchall,
                                             CATCHALL_CACHE_TTL, now)
           /\ b_tasks' = [b_tasks EXCEPT ![i] =
                             BulkTask("done", AfterCatchall(task.result, is_catchall),
                                      task.mx_hosts, BulkNoError)]
    /\ UNCHANGED <<mx_cache, a_mx_cache, a_pools, a_last_request>>
    /\ BulkCallUnchanged
    /\ BulkRestUnchanged

\* the validation of address i raises error; gather keeps the exception as
\* the outcome of the task, or lets it through to the caller of
\* validate_bulk
BulkTaskRaises(i, error) ==
    /\ b_pc = "validating"
    /\ b_tasks[i].state \in {"new", "dns_wait", "smtp_wait", "catchall_wait"}
    /\ b_tasks' = [b_tasks EXCEPT ![i] = BulkTask("raised", BulkNoResult, <<>>, error)]
    /\ b_pc' = IF GATHER_RETURN_EXCEPTIONS THEN b_pc ELSE "aborted"
    /\ UNCHANGED <<mx_cache, a_mx_cache, catchall_cache, a_pools, a_last_request,
                   s_combined_cache, b_which, b_emails, b_unique, b_pending,
                   b_dns_results, b_queries, b_results>>
    /\ BulkRestUnchanged

\* the list validate_bulk builds from the outcomes of the tasks
BulkFinalResults(which, unique, tasks) ==
    [i \in 1..Len(tasks) |->
        IF tasks[i].state = "raised"
          THEN BulkErrorResult(which, unique[i], tasks[i].error)
          ELSE tasks[i].result]

\* every task has returned or raised: validate_bulk returns
BulkReturns ==
    /\ b_pc = "validating"
    /\ \A i \in 1..Len(b_tasks) : b_tasks[i].state \in {"done", "raised"}
    /\ b_results' = BulkFinalResults(b_which, b_unique, b_tasks)
    /\ b_pc' = "done"
    /\ UNCHANGED <<mx_cache, a_mx_cache, catchall_cache, a_pools, a_last_request,
                   s_combined_cache, b_which, b_emails, b_unique, b_pending,
                   b_dns_results, b_tasks, b_queries>>
    /\ BulkRestUnchanged

BulkNext ==
    \/ \E which \in {"fast", "async", "strict"}, emails \in BulkInputs :
          BulkStart(which, emails)
    \/ \E domain \in b_pending, lookup \in BulkLookups(b_which) :
          BulkResolved(domain, lookup)
    \/ \E i \in 1..Len(b_tasks) : BulkTaskRuns(i)
    \/ \E i \in 1..Len(b_tasks), lookup \in BulkLookups(b_which) : BulkTaskMx(i, lookup)
    \/ \E i \in 1..Len(b_tasks) :
          \E reply \in BulkSmtpReplies(b_which, b_tasks[i].mx_hosts) :
              BulkTaskSmtp(i, reply)
    \/ \E i \in 1..Len(b_tasks) :
          \E plan1, plan2 \in BulkSyntheticPlans(b_tasks[i].mx_hosts) :
              BulkTaskCatchall(i, plan1, plan2)
    \/ \E i \in 1..Len(b_tasks), error \in BulkErrors : BulkTaskRaises(i, error)
    \/ BulkReturns

(***************************************************************************)
(* The resolvers called on their own: FastDNSResolver.resolve_mx and       *)
(* StrictDNSResolver.check_domain_and_mx.  A call returns at once from the *)
(* cache, or waits for its DNS query (the strict resolver: the MX and the  *)
(* A query together); calls may overlap.                                   *)
(***************************************************************************)
\* the calls made in one behaviour
MaxResolutions == 3

DnsResolvers == {"fast", "strict"}
DnsDomains == {<<"e","x","a","m","p","l","e",".","o","r","g">>, <<"e","x","a","m","p","l","e",".","n","e","t">>}

DnsInit ==
    /\ d_pending = {}
    /\ d_log = <<>>

\* A call that returned: began is the number of calls that had returned
\* when it started, hit whether it was answered from the cache, expires_at
\* the expiry of the cache entry of the domain when it returned.
DnsReturned(call, hit, value, expires_at) ==
    [id |-> call.id, which |-> call.which, domain |-> call.domain,
     began |-> call.began, start |-> call.start,
     hit |-> hit, value |-> value, expires_at |-> expires_at]

\* (variant of DnsLookup: an empty cached list taken for a miss)
DnsLookup_EmptyIsMiss(which, cache, domain, time) ==
    LET cached == BulkCacheGet(which, cache, domain, time)
    IN  IF which = "fast" /\ cached.hit /\ cached.value = <<>>
          THEN [hit |-> FALSE, value |-> <<>>, cache |-> cache]
          ELSE cached

\* the cache lookup of resolve_mx (cached is not None) and of
\* check_domain_and_mx
DnsLookup(which, cache, domain, time) == BulkCacheGet(which, cache, domain, time)

\* resolve_mx(domain) or check_domain_and_mx(domain) is called: it returns
\* the cached value, or sends its query
DnsResolve(which, domain) ==
    /\ Len(d_log) + Cardinality(d_pending) < MaxResolutions
    /\ LET call == [id |-> Len(d_log) + Cardinality(d_pending) + 1, which |-> which,
                    domain |-> domain, began |-> Len(d_log), start |-> now]
       IN  \E cached \in {DnsLookup(which, BulkCache(which), domain, now)} :
              IF cached.hit
                THEN /\ d_log' = Append(d_log,
                                    DnsReturned(call, TRUE, cached.value,
                                        CacheEntryOf(cached.cache, domain).expires_at))
                     /\ d_pending' = d_pending
                     /\ UNCHANGED <<mx_cache, s_combined_cache>>
                ELSE /\ d_pending' = d_pending \cup {call}
                     /\ d_log' = d_log
                     /\ mx_cache' = IF which = "fast" THEN cached.cache ELSE mx_cache
                     /\ s_combined_cache' = IF which = "strict" THEN cached.cache
                                            ELSE s_combined_cache
    /\ UNCHANGED <<now, catchall_cache, f_runs, f_pc, f_raw, f_result, f_mx_hosts, f_dns,
                   f_plan, f_log, f_ca_log, async_vars, strict_vars, b_which, b_pc,
                   b_emails, b_unique, b_pending, b_dns_results, b_tasks, b_queries,
                   b_results, idem_vars, score_vars,
                   ext_vars>>

\* the query of a waiting call completes: the result is cached and returned
DnsResolved(call, lookup) ==
    /\ call \in d_pending
    /\ \E cache \in {BulkCacheAfter(call.which, BulkCache(call.which), call.domain,
                                    lookup, now)} :
          /\ mx_cache' = IF call.which = "fast" THEN cache ELSE mx_cache
          /\ s_combined_cache' = IF call.which = "strict" THEN cache
                                 ELSE s_combined_cache
          /\ d_log' = Append(d_log,
                             DnsReturned(call, FALSE,
                                         CacheEntryOf(cache, call.domain).value,
                                         CacheEntryOf(cache, call.domain).expires_at))
    /\ d_pending' = d_pending \ {call}
    /\ UNCHANGED <<now, catchall_cache, f_runs, f_pc, f_raw, f_result, f_mx_hosts, f_dns,
                   f_plan, f_log, f_ca_log, async_vars, strict_vars, b_which, b_pc,
                   b_emails, b_unique, b_pending, b_dns_results, b_tasks, b_queries,
                   b_results, idem_vars, score_vars,
                   ext_vars>>

DnsNext ==
    \/ Tick
    \/ \E which \in DnsResolvers, domain \in DnsDomains : DnsResolve(which, domain)
    \/ \E call \in d_pending :
          \E lookup \in BulkLookups(call.which) : DnsResolved(call, lookup)

(***************************************************************************)
(* FastEmailValidator.validate_email called again for one address.  The    *)
(* DNS and the hosts answer a later validation as they answered the        *)
(* first: the answers are fixed when they are first given.                 *)
(***************************************************************************)
\* the validations of the address in one behaviour
MaxRepeats == 3

IdemRawEmails ==
    {<<"j","o","h","n","d","o","e","@","e","x","a","m","p","l","e",".","o","r","g">>, <<"a","d","m","i","n","@","e","x","a","m","p","l","e",".","o","r","g">>, <<" ","J","o","h","n","D","o","e","@","E","x","a","m","p","l","e",".","O","R","G"," ">>,
     <<"j","o","h","n","d","o","e","@","g","m","a","i","l",".","c","o","m">>, <<"j","o","h","n","d","o","e","@","t","e","m","p",".","i","o">>, <<"j","o","h","n",".",".","d","o","e","@","t","e","m","p",".","i","o">>}

\* what a host answers to the address itself
IdemHostPlans ==
    {<<Response(250, <<>>)>>, <<Response(550, <<>>)>>, <<Response(552, <<>>)>>,
     <<Response(450, <<>>)>>, <<Failure("connect_timeout")>>}

IdemPlans(mx_hosts) ==
    {[i \in 1..Min(Len(mx_hosts), MAX_MX_HOSTS_TO_TRY) |-> p] : p \in IdemHostPlans}

\* the answers given so far: each <<>> until it is given
IdemNoWorld == [answer |-> <<>>, plan |-> <<>>, synthetic |-> <<>>]

IdemInit ==
    /\ i_pc = "idle"
    /\ i_run = 0
    /\ i_raw = <<>>
    /\ i_start = 0
    /\ i_result = EmptyResult
    /\ i_mx_hosts = <<>>
    /\ i_world = IdemNoWorld
    /\ i_first = <<>>
    /\ i_hits = 0

\* what the caller reads from a result
IdemOutcome(start, result) ==
    [start |-> start, status |-> result.status, score |-> result.deliverability_score]

\* (variant of IdemMxLookup: a hit that returns the empty list)
IdemMxLookup_HitEmpty(cache, domain, time) ==
    LET cached == FastCacheGet(cache, domain, time)
    IN  IF cached.hit THEN [cached EXCEPT !.value = <<>>] ELSE cached

\* cached = _mx_cache.get(domain) of resolve_mx
IdemMxLookup(cache, domain, time) == FastCacheGet(cache, domain, time)

IdemRestUnchanged ==
    UNCHANGED <<f_runs, f_pc, f_raw, f_result, f_mx_hosts, f_dns, f_plan, f_log,
                f_ca_log, async_vars, strict_vars, bulk_vars, dns_vars, score_vars,
                ext_vars>>

\* the validation goes on with the MX list
IdemContinueWithMx(next, mx_hosts) ==
    /\ i_result' = next.result
    /\ i_mx_hosts' = mx_hosts
    /\ i_pc' = IF next.done THEN "done" ELSE "smtp_wait"

\* validate_email(raw): the first validation of the address, or the next
\* one once the one before has returned
IdemValidate(raw) ==
    /\ i_pc \in {"idle", "done"}
    /\ i_run < MaxRepeats
    /\ i_run >= 1 => raw = i_raw
    /\ i_run' = i_run + 1
    /\ i_raw' = raw
    /\ i_start' = now
    /\ i_first' = IF i_run >= 1 THEN <<IdemOutcome(i_start, i_result)>> ELSE <<>>
    /\ \E local \in {LocalChecks(raw)} :
       \E cached \in {IdemMxLookup(mx_cache, DomainOf(local.result), now)} :
          IF local.done
            THEN /\ i_result' = local.result
                 /\ i_mx_hosts' = <<>>
                 /\ i_pc' = "done"
                 /\ i_hits' = 0
                 /\ mx_cache' = mx_cache
          ELSE IF cached.hit
            THEN /\ IdemContinueWithMx(AfterMx(local.result, cached.value), cached.value)
                 /\ i_hits' = 1
                 /\ mx_cache' = mx_cache
          ELSE /\ i_result' = local.result
               /\ i_mx_hosts' = <<>>
               /\ i_pc' = "dns_wait"
               /\ i_hits' = 0
               /\ mx_cache' = cached.cache
    /\ UNCHANGED <<now, catchall_cache, i_world>>
    /\ IdemRestUnchanged

\* resolve_mx: the MX query completes; the list is cached
IdemDnsAnswer(answer) ==
    /\ i_pc = "dns_wait"
    /\ i_world.answer \in {<<>>, <<answer>>}
    /\ i_world' = [i_world EXCEPT !.answer = <<answer>>]
    /\ \E resolved \in {ResolvedMx(answer)} :
          /\ mx_cache' = FastCacheSet(mx_cache, MX_CACHE_MAX_SIZE, DomainOf(i_result),
                                      resolved.mx_list, resolved.ttl, now)
          /\ IdemContinueWithMx(AfterMx(i_result, resolved.mx_list), resolved.mx_list)
    /\ UNCHANGED <<now, catchall_cache, i_run, i_raw, i_start, i_first, i_hits>>
    /\ IdemRestUnchanged

\* verify_smtp returns; check_catchall returns at once with a cached verdict
IdemSmtpDone(plan) ==
    /\ i_pc = "smtp_wait"
    /\ i_world.plan \in {<<>>, <<plan>>}
    /\ i_world' = [i_world EXCEPT !.plan = <<plan>>]
    /\ \E next \in {AfterSmtp(i_result,
                              verify_smtp(i_mx_hosts, PIPELINE_RETRY_GREYLISTING,
                                          plan).result)},
          cached \in {FastCacheGet(catchall_cache, DomainOf(i_result), now)} :
          IF next.done
            THEN /\ i_result' = next.result
                 /\ i_pc' = "done"
                 /\ i_hits' = i_hits
                 /\ catchall_cache' = catchall_cache
          ELSE IF cached.hit
            THEN /\ i_result' = AfterCatchall(next.result, cached.value)
                 /\ i_pc' = "done"
                 /\ i_hits' = i_hits + 1
                 /\ catchall_cache' = catchall_cache
          ELSE /\ i_result' = next.result
               /\ i_pc' = "catchall_wait"
               /\ i_hits' = i_hits
               /\ catchall_cache' = cached.cache
    /\ UNCHANGED <<now, mx_cache, i_run, i_raw, i_start, i_mx_hosts, i_first>>
    /\ IdemRestUnchanged

\* check_catchall: the two probes of random addresses have completed
IdemCatchallDone(plan1, plan2) ==
    /\ i_pc = "catchall_wait"
    /\ i_world.synthetic \in {<<>>, <<<<plan1, plan2>>>>}
    /\ i_world' = [i_world EXCEPT !.synthetic = <<<<plan1, plan2>>>>]
    /\ \E is_catchall \in {verify_smtp(i_mx_hosts, FALSE, plan1).result.valid
                             /\ verify_smtp(i_mx_hosts, FALSE, plan2).result.valid} :
          /\ catchall_cache' = FastCacheSet(catchall_cache, CATCHALL_CACHE_MAX_SIZE,
                                            DomainOf(i_result), is_catchall,
                                            CATCHALL_CACHE_TTL, now)
          /\ i_result' = AfterCatchall(i_result, is_catchall)
    /\ i_pc' = "done"
    /\ UNCHANGED <<now, mx_cache, i_run, i_raw, i_start, i_mx_hosts, i_first, i_hits>>
    /\ IdemRestUnchanged

IdemNext ==
    \/ Tick
    \/ \E raw \in IdemRawEmails : IdemValidate(raw)
    \/ \E answer \in BulkMxAnswers : IdemDnsAnswer(answer)
    \/ \E plan \in IdemPlans(i_mx_hosts) : IdemSmtpDone(plan)
    \/ \E plan1, plan2 \in BulkSyntheticPlans(i_mx_hosts) : IdemCatchallDone(plan1, plan2)

(***************************************************************************)
(* scoring_engine.py: classify_status, and scoring.calculate_full_score,   *)
(* applied to phase results and to results                                 *)
(***************************************************************************)
\* the scores calculate_score returns: max(0, min(100, score))
SCORE_MAX == 100
ScoreValues == 0..SCORE_MAX

\* The phase results.  given is FALSE for None (or an empty dict): the
\* phase was not run.
NoP1 ==
    [given |-> FALSE, syntax_valid |-> FALSE, is_disposable |-> FALSE,
     is_blacklisted |-> FALSE, is_role |-> FALSE]
NoP2 == [given |-> FALSE, mx_exists |-> FALSE]
NoP3 == [given |-> FALSE, is_free_provider |-> FALSE]
NoP4 == [given |-> FALSE, smtp_status |-> "not_checked", is_catch_all |-> FALSE]

P1Inputs ==
    {NoP1} \cup [given : {TRUE}, syntax_valid : BOOLEAN, is_disposable : BOOLEAN,
                 is_blacklisted : BOOLEAN, is_role : BOOLEAN]
P2Inputs == {NoP2} \cup [given : {TRUE}, mx_exists : BOOLEAN]
P3Inputs == {NoP3} \cup [given : {TRUE}, is_free_provider : BOOLEAN]
P4Inputs ==
    {NoP4} \cup [given : {TRUE},
                 smtp_status : {"not_checked", "timeout", "error", "temporary",
                                "mailbox_not_found", "mailbox_full", "accepted"},
                 is_catch_all : BOOLEAN]

PhaseInputs == [p1 : P1Inputs, p2 : P2Inputs, p3 : P3Inputs, p4 : P4Inputs]

Classified(status, sub_status) == [status |-> status, sub_status |-> sub_status]

\* the fallback of classify_status
ScoreFallback(score) ==
    IF score >= 90 THEN Classified("valid", "high_quality")
    ELSE IF score >= 70 THEN Classified("risky", "medium_quality")
    ELSE IF score >= 50 THEN Classified("risky", "low_quality")
    ELSE Classified("invalid", "low_score")

\* classify_status after the SMTP rules
ClassifyAfterSmtp(score, p1, p2, p3) ==
    IF p3.given /\ p3.is_free_provider /\ p2.given /\ p2.mx_exists
      THEN IF p1.given /\ p1.is_role THEN Classified("risky", "role_account")
           ELSE Classified("valid", "free_provider")
    ELSE IF p1.given /\ p1.is_role
      THEN IF score >= 70 THEN Classified("risky", "role_account")
           ELSE Classified("invalid", "role_account")
    ELSE ScoreFallback(score)

\* classify_status: (status, sub_status)
classify_status(score, p1, p2, p3, p4) ==
    IF p1.given /\ ~p1.syntax_valid THEN Classified("invalid", "invalid_syntax")
    ELSE IF p1.given /\ p1.is_disposable THEN Classified("invalid", "disposable")
    ELSE IF p1.given /\ p1.is_blacklisted THEN Classified("invalid", "blacklisted")
    ELSE IF p2.given /\ ~p2.mx_exists THEN Classified("invalid", "no_mx")
    ELSE IF p4.given /\ p4.smtp_status \in {"timeout", "error"}
      THEN Classified("unknown", p4.smtp_status)
    ELSE IF p4.given /\ p4.smtp_status = "temporary"
      THEN Classified("unknown", "temporary")
    ELSE IF p4.given /\ p4.smtp_status = "mailbox_not_found"
      THEN Classified("invalid", "mailbox_not_found")
    ELSE IF p4.given /\ p4.smtp_status = "mailbox_full"
      THEN Classified("risky", "mailbox_full")
    ELSE IF p4.given /\ p4.is_catch_all THEN Classified("risky", "catch_all")
    ELSE IF p4.given /\ p4.smtp_status = "accepted"
      THEN IF score >= 90 THEN Classified("valid", "mailbox_exists")
           ELSE IF score >= 70 THEN Classified("risky", "deliverable_low_score")
           ELSE Classified("invalid", "low_quality")
    ELSE ClassifyAfterSmtp(score, p1, p2, p3)

\* results handed to calculate_full_score: the result dict of the fast
\* validator with each status the validators assign
ScoredStatuses ==
    {"safe", "role", "catch_all", "disposable", "inbox_full", "invalid", "unknown",
     "spamtrap", "disabled", "Valid", "Invalid", "Unknown", "Role-Based"}

ScoredInputs ==
    {[_init_result(<<"j","o","h","n","d","o","e","@","e","x","a","m","p","l","e",".","o","r","g">>) EXCEPT
          !.status = s, !.is_valid = v, !.syntax_valid = YesNo(v),
          !.smtp_valid = YesNo(d), !.is_catch_all = c] :
        s \in ScoredStatuses, v \in BOOLEAN, d \in BOOLEAN, c \in BOOLEAN}

\* nothing classified and nothing scored
ScoreIdle ==
    /\ c_status = <<>>
    /\ c_first = <<>>
    /\ c_scored = <<>>

ScoreInit ==
    /\ c_phases = [p1 |-> NoP1, p2 |-> NoP2, p3 |-> NoP3, p4 |-> NoP4]
    /\ ScoreIdle

ScoreRestUnchanged ==
    UNCHANGED <<now, fast_vars, async_vars, strict_vars, bulk_vars, dns_vars, idem_vars,
                ext_vars>>

\* classify_status(score, p1, p2, p3, p4) is called for the phase results
Classify(score) ==
    /\ c_scored = <<>>
    /\ \E classified \in {classify_status(score, c_phases.p1, c_phases.p2,
                                          c_phases.p3, c_phases.p4)} :
          /\ c_status' = <<classified>>
          /\ c_first' = IF c_first = <<>> THEN <<classified>> ELSE c_first
    /\ UNCHANGED <<c_phases, c_scored>>
    /\ ScoreRestUnchanged

\* calculate_full_score(result) is called
FullScore(result) ==
    /\ c_first = <<>>
    /\ c_scored = <<>>
    /\ c_scored' = <<result.status, calculate_full_score(result).status>>
    /\ UNCHANGED <<c_phases, c_status, c_first>>
    /\ ScoreRestUnchanged

ScoreNext ==
    \/ \E score \in ScoreValues : Classify(score)
    \/ \E result \in ScoredInputs : FullScore(result)

(***************************************************************************)
(* The syntax checks applied to a string: check_syntax_fast of the fast    *)
(* validator and validate_syntax of the strict one                         *)
(***************************************************************************)
\* the longest string checked
MaxSyntaxLen == 6

SyntaxChars == {"a", "@", ".", " "}

SyntaxInputs == UNION {[1..n -> SyntaxChars] : n \in 0..MaxSyntaxLen}

SyntaxIdle ==
    /\ x_fast = <<>>
    /\ x_strict = <<>>

SyntaxInit ==
    /\ x_email = <<>>
    /\ SyntaxIdle

SyntaxRestUnchanged ==
    UNCHANGED <<now, fast_vars, async_vars, strict_vars, bulk_vars, dns_vars, idem_vars,
                score_vars, pool_vars, throttle_vars, verifier_vars, retry_vars,
                cache_vars, late_vars>>

\* check_syntax_fast(email) is called
SyntaxFast ==
    /\ x_fast = <<>>
    /\ x_fast' = <<check_syntax_fast(x_email)>>
    /\ UNCHANGED <<x_email, x_strict>>
    /\ SyntaxRestUnchanged

\* validate_syntax(email) is called
SyntaxStrict ==
    /\ x_strict = <<>>
    /\ x_strict' = <<validate_syntax(x_email)>>
    /\ UNCHANGED <<x_email, x_fast>>
    /\ SyntaxRestUnchanged

SyntaxNext ==
    \/ SyntaxFast
    \/ SyntaxStrict

(***************************************************************************)
(* Concurrent callers of one domain's connection pool.                     *)
(*                                                                         *)
(* "async": AsyncEmailValidator._check_smtp run by several coroutines on   *)
(* the SMTPConnectionPool of async_validator.py.  One step is the code     *)
(* between two awaits; "async with self._locks[domain]" is entered only    *)
(* when no other coroutine is inside.                                      *)
(* "domain": verify_email run by several coroutines on the                 *)
(* SMTPConnectionPool of smtp_pool.py, whose pool is the list of the idle  *)
(* connections.                                                            *)
(* A behaviour exercises one of the two pools, chosen by its first call.   *)
(***************************************************************************)
MaxCallers == 2
MaxCalls == 3

PoolCallers == 1..MaxCallers

\* SMTPConnectionPool.__init__ of smtp_pool.py: max_size
DOMAIN_POOL_MAX_SIZE == 3

\* A caller before its call: pc is where the call stands, n the number of
\* MX hosts it was given, host the one it is at, conn the session it holds,
\* owned the sessions it opened or acquired, passes the times it passed the
\* throttler, probes the RCPT TO commands it sent and left the sessions it
\* left connected outside the pool when it returned.  A call that has
\* returned keeps none of its locals: its record is this one with pc
\* "returned" and its left.
PoolIdleCall ==
    [pc |-> "idle", n |-> 0, host |-> 0, conn |-> 0, owned |-> {}, passes |-> 0,
     probes |-> 0, left |-> {}]

PoolInit ==
    /\ p_which = "none"
    /\ p_pool = <<>>
    /\ p_lock = 0
    /\ p_open = {}
    /\ p_call = [c \in PoolCallers |-> PoolIdleCall]
    /\ p_calls = 0

\* the identity of a session about to be opened: one that no session open
\* now has
NewSession(open) == CHOOSE s \in 1..(Cardinality(open) + 1) : s \notin open

PoolRestUnchanged ==
    UNCHANGED <<now, fast_vars, async_vars, strict_vars, bulk_vars, dns_vars, idem_vars,
                score_vars, syntax_vars, throttle_vars, verifier_vars, retry_vars,
                cache_vars, late_vars>>

\* the sessions of the async pool that are in it and not in use
PoolFree(pool) == {pool[i].id : i \in {k \in 1..Len(pool) : ~pool[k].in_use}}

\* What a call that returns leaves behind: the sessions it opened or acquired
\* that are still connected and are not back in the pool, free.
PoolLeft(owned, open, pool) == {s \in owned : s \in open /\ s \notin PoolFree(pool)}

\* _check_smtp is called with the MX hosts of the domain and passes the
\* throttler (await self._throttler.acquire(domain)) before its loop
PoolCheckSmtp(c, n) ==
    /\ p_which \in {"none", "async"}
    /\ p_call[c].pc \in {"idle", "returned"}
    /\ p_calls < MaxCalls
    /\ p_which' = "async"
    /\ p_calls' = p_calls + 1
    /\ p_call' = [p_call EXCEPT ![c] = [PoolIdleCall EXCEPT !.pc = "get", !.n = n,
                                                             !.host = 1, !.passes = 1]]
    /\ UNCHANGED <<p_pool, p_lock, p_open>>
    /\ PoolRestUnchanged

\* get_connection up to its first await: a free connection is handed out, or
\* the expired ones are dropped and a new one is being connected inside the
\* lock, or the pool is full and None is returned
PoolGetConnection(c) ==
    /\ p_which = "async"
    /\ p_call[c].pc = "get"
    /\ p_lock = 0
    /\ \E got \in {get_connection(p_pool, FALSE, now)} :
         /\ p_pool' = got.pool
         /\ IF got.conn # 0
              THEN /\ p_call' = [p_call EXCEPT ![c].pc = "session", ![c].conn = got.conn,
                                               ![c].owned = @ \cup {got.conn}]
                   /\ UNCHANGED p_lock
            ELSE IF Len(got.pool) < POOL_SIZE_PER_DOMAIN
              THEN /\ p_call' = [p_call EXCEPT ![c].pc = "pool_connect"]
                   /\ p_lock' = c
            ELSE /\ p_call' = [p_call EXCEPT ![c].pc = "connect"]
                 /\ UNCHANGED p_lock
    /\ UNCHANGED <<p_which, p_open, p_calls>>
    /\ PoolRestUnchanged

\* get_connection after "await smtp.connect()": the new connection joins the
\* pool in use, or the exception makes get_connection return None
PoolConnected(c, connected) ==
    /\ p_which = "async"
    /\ p_call[c].pc = "pool_connect"
    /\ p_lock' = 0
    /\ IF connected
         THEN /\ p_open' = p_open \cup {NewSession(p_open)}
              /\ p_pool' = Append(p_pool, [id |-> NewSession(p_open), created_at |-> now,
                                           in_use |-> TRUE])
              /\ p_call' = [p_call EXCEPT ![c].pc = "session", ![c].conn = NewSession(p_open),
                                          ![c].owned = @ \cup {NewSession(p_open)}]
       ELSE /\ p_call' = [p_call EXCEPT ![c].pc = "connect"]
            /\ UNCHANGED <<p_open, p_pool>>
    /\ UNCHANGED <<p_which, p_calls>>
    /\ PoolRestUnchanged

\* _check_smtp with conn None: "smtp = aiosmtplib.SMTP(...); await
\* smtp.connect()".  A failure raises into the handlers, which close smtp.
PoolUnpooledConnected(c, connected) ==
    /\ p_which = "async"
    /\ p_call[c].pc = "connect"
    /\ IF connected
         THEN /\ p_open' = p_open \cup {NewSession(p_open)}
              /\ p_call' = [p_call EXCEPT ![c].pc = "session", ![c].conn = NewSession(p_open),
                                          ![c].owned = @ \cup {NewSession(p_open)}]
       ELSE /\ p_call' = [p_call EXCEPT ![c].pc = "close", ![c].conn = 0]
            /\ UNCHANGED p_open
    /\ UNCHANGED <<p_which, p_pool, p_lock, p_calls>>
    /\ PoolRestUnchanged

\* HELO, MAIL FROM and RCPT TO on the connection held.  outcome:
\*   "early_error"  timeout or exception in HELO or MAIL FROM
\*   "rcpt_error"   RCPT TO sent; timeout or an exception other than
\*                  SMTPRecipientRefused
\*   "response"     RCPT TO sent and answered
PoolSessionOutcomes == {"early_error", "rcpt_error", "response"}

PoolSession(c, outcome) ==
    /\ p_which = "async"
    /\ p_call[c].pc = "session"
    /\ p_call' = [p_call EXCEPT ![c].pc = IF outcome = "response" THEN "release"
                                          ELSE "close",
                                ![c].probes = IF outcome = "early_error" THEN @
                                              ELSE @ + 1]
    /\ UNCHANGED <<p_which, p_pool, p_lock, p_open, p_calls>>
    /\ PoolRestUnchanged

\* "await self._pool.release_connection(smtp, domain)" and the return of
\* _check_smtp with the reading of the code
PoolRelease(c) ==
    /\ p_which = "async"
    /\ p_call[c].pc = "release"
    /\ p_lock = 0
    /\ \E pool \in {release_connection(p_pool, p_call[c].conn)} :
         /\ p_pool' = pool
         /\ p_call' = [p_call EXCEPT ![c] =
                         [PoolIdleCall EXCEPT !.pc = "returned",
                                              !.left = PoolLeft(p_call[c].owned, p_open,
                                                                pool)]]
    /\ UNCHANGED <<p_which, p_lock, p_open, p_calls>>
    /\ PoolRestUnchanged

\* the handlers' "if smtp: await self._pool.close_connection(smtp, domain)"
\* up to "await smtp.quit()": the connection leaves the pool
PoolClose(c) ==
    /\ p_which = "async"
    /\ p_call[c].pc = "close"
    /\ p_lock = 0
    /\ p_lock' = c
    /\ p_pool' = close_connection(p_pool, p_call[c].conn)
    /\ p_call' = [p_call EXCEPT ![c].pc = "quit"]
    /\ UNCHANGED <<p_which, p_open, p_calls>>
    /\ PoolRestUnchanged

\* smtp.quit() is over (its exceptions are swallowed); the loop goes on with
\* the next host, or _check_smtp returns connection_failed
PoolQuit(c) ==
    /\ p_which = "async"
    /\ p_call[c].pc = "quit"
    /\ p_lock' = 0
    /\ \E open \in {p_open \ {p_call[c].conn}} :
         /\ p_open' = open
         /\ IF p_call[c].host < p_call[c].n
              THEN p_call' = [p_call EXCEPT ![c].pc = "get", ![c].host = @ + 1,
                                            ![c].conn = 0,
                                            ![c].owned = @ \ {p_call[c].conn}]
            ELSE p_call' = [p_call EXCEPT ![c] =
                              [PoolIdleCall EXCEPT !.pc = "returned",
                                                   !.left = PoolLeft(p_call[c].owned, open,
                                                                     p_pool)]]
    /\ UNCHANGED <<p_which, p_pool, p_calls>>
    /\ PoolRestUnchanged

\* smtp_pool.py: _acquire_connection from "while self.pool" on, inside the
\* lock: the head of the pool is popped and its health is awaited, or a
\* connection is being created
DomainTake(call, pool) ==
    IF Len(pool) > 0
      THEN [call |-> [call EXCEPT !.pc = "health", !.conn = Head(pool)],
            pool |-> Tail(pool)]
    ELSE [call |-> [call EXCEPT !.pc = "create", !.conn = 0], pool |-> pool]

\* verify_email enters _acquire_connection
DomainVerifyEmail(c) ==
    /\ p_which \in {"none", "domain"}
    /\ p_call[c].pc \in {"idle", "returned"}
    /\ p_calls < MaxCalls
    /\ p_lock = 0
    /\ p_which' = "domain"
    /\ p_calls' = p_calls + 1
    /\ p_lock' = c
    /\ \E took \in {DomainTake(PoolIdleCall, p_pool)} :
         /\ p_pool' = took.pool
         /\ p_call' = [p_call EXCEPT ![c] = took.call]
    /\ UNCHANGED p_open
    /\ PoolRestUnchanged

\* "if await self._is_healthy(conn): return conn", else the connection is
\* closed and the loop goes on
DomainHealth(c, healthy) ==
    /\ p_which = "domain"
    /\ p_call[c].pc = "health"
    /\ IF healthy
         THEN /\ p_call' = [p_call EXCEPT ![c].pc = "session"]
              /\ p_lock' = 0
              /\ UNCHANGED <<p_pool, p_open>>
       ELSE /\ p_open' = p_open \ {p_call[c].conn}
            /\ \E took \in {DomainTake(p_call[c], p_pool)} :
                 /\ p_pool' = took.pool
                 /\ p_call' = [p_call EXCEPT ![c] = took.call]
            /\ UNCHANGED p_lock
    /\ UNCHANGED <<p_which, p_calls>>
    /\ PoolRestUnchanged

\* "return await self._create_connection()": a host accepted the
\* connection, or every host failed and the exception ends verify_email
DomainCreated(c, connected) ==
    /\ p_which = "domain"
    /\ p_call[c].pc = "create"
    /\ p_lock' = 0
    /\ IF connected
         THEN /\ p_open' = p_open \cup {NewSession(p_open)}
              /\ p_call' = [p_call EXCEPT ![c].pc = "session", ![c].conn = NewSession(p_open)]
       ELSE /\ p_call' = [p_call EXCEPT ![c].pc = "returned", ![c].conn = 0, ![c].owned = {}]
            /\ UNCHANGED p_open
    /\ UNCHANGED <<p_which, p_pool, p_calls>>
    /\ PoolRestUnchanged

\* MAIL FROM, RCPT TO and RSET of verify_email: answered, or a timeout or
\* an exception after which the connection is closed
DomainSession(c, answered) ==
    /\ p_which = "domain"
    /\ p_call[c].pc = "session"
    /\ IF answered
         THEN /\ p_call' = [p_call EXCEPT ![c].pc = "release"]
              /\ UNCHANGED p_open
       ELSE /\ p_call' = [p_call EXCEPT ![c].pc = "returned", ![c].conn = 0, ![c].owned = {}]
            /\ p_open' = p_open \ {p_call[c].conn}
    /\ UNCHANGED <<p_which, p_pool, p_lock, p_calls>>
    /\ PoolRestUnchanged

\* _release_connection: back to the pool, or closed when the pool is full
DomainRelease(c) ==
    /\ p_which = "domain"
    /\ p_call[c].pc = "release"
    /\ p_lock = 0
    /\ IF Len(p_pool) < DOMAIN_POOL_MAX_SIZE
         THEN /\ p_pool' = Append(p_pool, p_call[c].conn)
              /\ UNCHANGED p_open
       ELSE /\ p_open' = p_open \ {p_call[c].conn}
            /\ UNCHANGED p_pool
    /\ p_call' = [p_call EXCEPT ![c].pc = "returned", ![c].conn = 0, ![c].owned = {}]
    /\ UNCHANGED <<p_which, p_lock, p_calls>>
    /\ PoolRestUnchanged

PoolNext ==
    \/ Tick
    \/ \E c \in PoolCallers, n \in 1..2 : PoolCheckSmtp(c, n)
    \/ \E c \in PoolCallers : PoolGetConnection(c)
    \/ \E c \in PoolCallers, connected \in BOOLEAN : PoolConnected(c, connected)
    \/ \E c \in PoolCallers, connected \in BOOLEAN : PoolUnpooledConnected(c, connected)
    \/ \E c \in PoolCallers, outcome \in PoolSessionOutcomes : PoolSession(c, outcome)
    \/ \E c \in PoolCallers : PoolRelease(c)
    \/ \E c \in PoolCallers : PoolClose(c)
    \/ \E c \in PoolCallers : PoolQuit(c)
    \/ \E c \in PoolCallers : DomainVerifyEmail(c)
    \/ \E c \in PoolCallers, healthy \in BOOLEAN : DomainHealth(c, healthy)
    \/ \E c \in PoolCallers, connected \in BOOLEAN : DomainCreated(c, connected)
    \/ \E c \in PoolCallers, answered \in BOOLEAN : DomainSession(c, answered)
    \/ \E c \in PoolCallers : DomainRelease(c)

(***************************************************************************)
(* async_validator.py: DomainThrottler.acquire run by several coroutines.  *)
(* Times are in milliseconds.  The clock starts at a reading larger than   *)
(* every interval, as time.time() is.                                      *)
(***************************************************************************)
MaxThrottlers == 2
MaxAcquires == 3
ThrottleTick == 25
ThrottleEpoch == 1000
MaxThrottleClock == ThrottleEpoch + 300

Throttlers == 1..MaxThrottlers

\* DOMAIN_RATE_LIMITS (requests per second) and DEFAULT_RATE_LIMIT
DOMAIN_RATE_LIMITS ==
    [d \in {<<"g","m","a","i","l",".","c","o","m">>, <<"g","o","o","g","l","e","m","a","i","l",".","c","o","m">>, <<"o","u","t","l","o","o","k",".","c","o","m">>, <<"h","o","t","m","a","i","l",".","c","o","m">>, <<"l","i","v","e",".","c","o","m">>}
        |-> 10]
    @@ [d \in {<<"y","a","h","o","o",".","c","o","m">>, <<"y","a","h","o","o",".","c","o",".","u","k">>, <<"a","o","l",".","c","o","m">>, <<"i","c","l","o","u","d",".","c","o","m">>, <<"m","e",".","c","o","m">>} |-> 8]

DEFAULT_RATE_LIMIT == 20

\* the domains the callers ask for
ThrottleDomains == {<<"g","m","a","i","l",".","c","o","m">>, <<"y","a","h","o","o",".","c","o","m">>, <<"e","x","a","m","p","l","e",".","o","r","g">>}

\* _get_interval: 1.0 / rate, in milliseconds
_get_interval(domain) ==
    1000 \div (IF domain \in DOMAIN DOMAIN_RATE_LIMITS THEN DOMAIN_RATE_LIMITS[domain]
               ELSE DEFAULT_RATE_LIMIT)

\* the wait computed from the time alone, as for a domain never probed
wait_time_NoLast(domain, time, last) == _get_interval(domain) - time

\* acquire: "wait_time = interval - (now - last)" with last 0 for a domain
\* that has no entry
wait_time(domain, time, last) == _get_interval(domain) - (time - last)

ThrottleIdleCall == [pc |-> "idle", domain |-> <<>>, wake |-> 0]

ThrottleInit ==
    /\ t_clock = ThrottleEpoch
    /\ t_last = [d \in ThrottleDomains |-> 0]
    /\ t_lock = [d \in ThrottleDomains |-> 0]
    /\ t_call = [c \in Throttlers |-> ThrottleIdleCall]
    /\ t_returns = [d \in ThrottleDomains |-> <<>>]
    /\ t_acquires = 0

ThrottleRestUnchanged ==
    UNCHANGED <<now, fast_vars, async_vars, strict_vars, bulk_vars, dns_vars, idem_vars,
                score_vars, syntax_vars, pool_vars, verifier_vars, retry_vars,
                cache_vars, late_vars>>

\* time passes
ThrottleClock ==
    /\ t_clock + ThrottleTick <= MaxThrottleClock
    /\ t_clock' = t_clock + ThrottleTick
    /\ UNCHANGED <<t_last, t_lock, t_call, t_returns, t_acquires>>
    /\ ThrottleRestUnchanged

\* acquire up to "await asyncio.sleep(wait_time)": inside the lock of the
\* domain the caller sleeps, or records the time and returns at once
ThrottleAcquire(c, domain) ==
    /\ t_call[c].pc = "idle"
    /\ t_acquires < MaxAcquires
    /\ t_lock[domain] = 0
    /\ t_acquires' = t_acquires + 1
    /\ \E wait \in {wait_time(domain, t_clock, t_last[domain])} :
         IF wait > 0
           THEN /\ t_lock' = [t_lock EXCEPT ![domain] = c]
                /\ t_call' = [t_call EXCEPT ![c] = [pc |-> "sleeping", domain |-> domain,
                                                    wake |-> t_clock + wait]]
                /\ UNCHANGED <<t_last, t_returns>>
         ELSE /\ t_last' = [t_last EXCEPT ![domain] = t_clock]
              /\ t_returns' = [t_returns EXCEPT ![domain] = Append(@, t_clock)]
              /\ UNCHANGED <<t_lock, t_call>>
    /\ UNCHANGED t_clock
    /\ ThrottleRestUnchanged

\* the sleep is over, at its time or later: "self._last_request[domain] =
\* time.time()", the lock is left and acquire returns
ThrottleWake(c) ==
    /\ t_call[c].pc = "sleeping"
    /\ t_clock >= t_call[c].wake
    /\ \E domain \in {t_call[c].domain} :
         /\ t_last' = [t_last EXCEPT ![domain] = t_clock]
         /\ t_returns' = [t_returns EXCEPT ![domain] = Append(@, t_clock)]
         /\ t_lock' = [t_lock EXCEPT ![domain] = 0]
    /\ t_call' = [t_call EXCEPT ![c] = ThrottleIdleCall]
    /\ UNCHANGED <<t_clock, t_acquires>>
    /\ ThrottleRestUnchanged

ThrottleNext ==
    \/ ThrottleClock
    \/ \E c \in Throttlers, domain \in ThrottleDomains : ThrottleAcquire(c, domain)
    \/ \E c \in Throttlers : ThrottleWake(c)

(***************************************************************************)
(* strict_validator.py: StrictSMTPVerifier.verify called by many           *)
(* coroutines at once.  The calls are counted by where they stand.  A call *)
(* with one MX host awaits _verify_single_mx inside the semaphore; a call  *)
(* with more races the first MAX_MX_PARALLEL hosts, one task each.  A      *)
(* task's session is closed by the "finally" of _verify_single_mx before   *)
(* the task returns; a cancelled task closes its session when it next      *)
(* runs, after verify has returned and left the semaphore.                 *)
(***************************************************************************)
MaxVerifies == 13

VerifierInit ==
    /\ v_permits = MAX_CONCURRENT_SMTP
    /\ v_started = 0
    /\ v_one_c = 0
    /\ v_one_o = 0
    /\ v_two_cc = 0
    /\ v_two_co = 0
    /\ v_two_oo = 0
    /\ v_cancelled = 0

VerifierRestUnchanged ==
    UNCHANGED <<now, fast_vars, async_vars, strict_vars, bulk_vars, dns_vars, idem_vars,
                score_vars, syntax_vars, pool_vars, throttle_vars, retry_vars,
                cache_vars, late_vars>>

\* the SMTP sessions opened by the verifier and not closed
OpenSessions == v_one_o + v_two_co + 2 * v_two_oo + v_cancelled

\* verify(email, mx_hosts) with n hosts: without hosts it returns at once;
\* else it enters the semaphore and starts one session, or the race
VerifierVerify(n) ==
    /\ v_started < MaxVerifies
    /\ v_started' = v_started + 1
    /\ IF n = 0 THEN UNCHANGED <<v_permits, v_one_c, v_two_cc>>
       ELSE /\ v_permits > 0
            /\ v_permits' = v_permits - 1
            /\ IF Min(n, MAX_MX_PARALLEL) = 1
                 THEN v_one_c' = v_one_c + 1 /\ UNCHANGED v_two_cc
               ELSE v_two_cc' = v_two_cc + 1 /\ UNCHANGED v_one_c
    /\ UNCHANGED <<v_one_o, v_two_co, v_two_oo, v_cancelled>>
    /\ VerifierRestUnchanged

\* smtp.connect() of a call's last session returns: the session is open,
\* or the task ends without one and verify returns, leaving the semaphore
VerifierOneConnects(connected) ==
    /\ v_one_c > 0
    /\ v_one_c' = v_one_c - 1
    /\ IF connected THEN v_one_o' = v_one_o + 1 /\ UNCHANGED v_permits
       ELSE v_permits' = v_permits + 1 /\ UNCHANGED v_one_o
    /\ UNCHANGED <<v_started, v_two_cc, v_two_co, v_two_oo, v_cancelled>>
    /\ VerifierRestUnchanged

\* a call's last session ends (answer, timeout or error), quit() closes it
\* and verify returns, leaving the semaphore
VerifierOneEnds ==
    /\ v_one_o > 0
    /\ v_one_o' = v_one_o - 1
    /\ v_permits' = v_permits + 1
    /\ UNCHANGED <<v_started, v_one_c, v_two_cc, v_two_co, v_two_oo, v_cancelled>>
    /\ VerifierRestUnchanged

\* smtp.connect() of a raced session returns while the other session is
\* connecting: the session is open, or its task ends with a NEUTRAL result
\* and the race goes on with the other
VerifierFirstConnects(connected) ==
    /\ v_two_cc > 0
    /\ v_two_cc' = v_two_cc - 1
    /\ IF connected THEN v_two_co' = v_two_co + 1 /\ UNCHANGED v_one_c
       ELSE v_one_c' = v_one_c + 1 /\ UNCHANGED v_two_co
    /\ UNCHANGED <<v_permits, v_started, v_one_o, v_two_oo, v_cancelled>>
    /\ VerifierRestUnchanged

\* the same while the other session is open
VerifierSecondConnects(connected) ==
    /\ v_two_co > 0
    /\ v_two_co' = v_two_co - 1
    /\ IF connected THEN v_two_oo' = v_two_oo + 1 /\ UNCHANGED v_one_o
       ELSE v_one_o' = v_one_o + 1 /\ UNCHANGED v_two_oo
    /\ UNCHANGED <<v_permits, v_started, v_one_c, v_two_cc, v_cancelled>>
    /\ VerifierRestUnchanged

\* The open session of a race ends and is closed while the other session is
\* connecting.  definitive: the result is VALID or INVALID, verify cancels
\* the other task, returns and leaves the semaphore; the cancelled task has
\* no session.  Otherwise the race goes on with the other.
VerifierOpenEnds(definitive) ==
    /\ v_two_co > 0
    /\ v_two_co' = v_two_co - 1
    /\ IF definitive THEN v_permits' = v_permits + 1 /\ UNCHANGED v_one_c
       ELSE v_one_c' = v_one_c + 1 /\ UNCHANGED v_permits
    /\ UNCHANGED <<v_started, v_one_o, v_two_cc, v_two_oo, v_cancelled>>
    /\ VerifierRestUnchanged

\* The same while the other session is open: the task cancelled by a
\* definitive result still has its session when verify has returned.
VerifierRaceEnds(definitive) ==
    /\ v_two_oo > 0
    /\ v_two_oo' = v_two_oo - 1
    /\ IF definitive
         THEN /\ v_permits' = v_permits + 1
              /\ v_cancelled' = v_cancelled + 1
              /\ UNCHANGED v_one_o
       ELSE /\ v_one_o' = v_one_o + 1
            /\ UNCHANGED <<v_permits, v_cancelled>>
    /\ UNCHANGED <<v_started, v_one_c, v_two_cc, v_two_co>>
    /\ VerifierRestUnchanged

\* a cancelled task runs: the "finally" of _verify_single_mx closes its
\* session
VerifierCancelledCloses ==
    /\ v_cancelled > 0
    /\ v_cancelled' = v_cancelled - 1
    /\ UNCHANGED <<v_permits, v_started, v_one_c, v_one_o, v_two_cc, v_two_co, v_two_oo>>
    /\ VerifierRestUnchanged

VerifierNext ==
    \/ \E n \in 0..3 : VerifierVerify(n)
    \/ \E connected \in BOOLEAN : VerifierOneConnects(connected)
    \/ VerifierOneEnds
    \/ \E connected \in BOOLEAN : VerifierFirstConnects(connected)
    \/ \E connected \in BOOLEAN : VerifierSecondConnects(connected)
    \/ \E definitive \in BOOLEAN : VerifierOpenEnds(definitive)
    \/ \E definitive \in BOOLEAN : VerifierRaceEnds(definitive)
    \/ VerifierCancelledCloses

(***************************************************************************)
(* fast_validator.py: FastSMTPVerifier.verify_smtp applied to an MX list,  *)
(* a value of retry_greylisting and the answers of the hosts.              *)
(***************************************************************************)
RetryMxLists == {<<>>, <<<<"m","x","1">>>>, <<<<"m","x","1">>, <<"m","x","2">>>>}

\* what a host answers to the first session and to a second one
RetryFirstOutcomes ==
    {Failure(k) : k \in SessionKinds \ {"response"}}
      \cup {Response(c, <<>>) : c \in {250, 421, 450, 451, 452, 550, 552}}

RetrySecondOutcomes ==
    {Response(c, <<>>) : c \in {250, 421, 450, 451, 550, 551, 552, 553, 554}}
      \cup {Failure("connect_timeout"), Failure("command_timeout")}

RetryPlans == {<<o1, o2>> : o1 \in RetryFirstOutcomes, o2 \in RetrySecondOutcomes}

RetryInit ==
    /\ g_hosts = <<>>
    /\ g_retry = TRUE
    /\ g_plan = <<>>
    /\ g_out = <<>>

RetryVerifySmtp ==
    /\ g_out = <<>>
    /\ g_out' = <<verify_smtp(g_hosts, g_retry, g_plan)>>
    /\ UNCHANGED <<g_hosts, g_retry, g_plan>>
    /\ UNCHANGED <<now, fast_vars, async_vars, strict_vars, bulk_vars, dns_vars, idem_vars,
                   score_vars, syntax_vars, pool_vars, throttle_vars, verifier_vars,
                   cache_vars, late_vars>>

RetryNext == RetryVerifySmtp

(***************************************************************************)
(* The cache reads on their own: FastCache.get (fast_validator.py),        *)
(* MXCache.get and the catch-all cache check of _check_catchall            *)
(* (async_validator.py), StrictDNSResolver._is_cached                      *)
(* (strict_validator.py).  A caller that is told "absent" resolves the     *)
(* key and writes the cache as the code of that cache does.  The caches    *)
(* are separate objects; a behaviour exercises one of them.                *)
(***************************************************************************)
MaxReads == 3

CacheNames == {"fast", "mx", "catchall", "strict"}
CacheKeys == {<<"e","x","a","m","p","l","e",".","o","r","g">>, <<"e","x","a","m","p","l","e",".","n","e","t">>}
CacheValues == {<<>>, <<<<"m","x","1">>>>}

\* async_validator.py: CATCHALL_CACHE_TTL
ASYNC_CATCHALL_CACHE_TTL == 300

\* _check_catchall: "if cache_key in self._catchall_cache: entry = ...;
\* if entry.is_valid(): return entry.value"; an expired entry stays in the
\* dict until it is overwritten
AsyncCatchallCheck(cache, key, time) ==
    IF CacheHas(cache, key) /\ time < CacheEntryOf(cache, key).expires_at
      THEN [hit |-> TRUE, value |-> CacheEntryOf(cache, key).value, cache |-> cache]
      ELSE [hit |-> FALSE, value |-> <<>>, cache |-> cache]

\* _check_catchall: self._catchall_cache[cache_key] = CacheEntry(...)
AsyncCatchallSet(cache, key, value, time) ==
    LET entry == [key |-> key, value |-> value,
                  expires_at |-> time + ASYNC_CATCHALL_CACHE_TTL]
    IN  IF CacheHas(cache, key)
          THEN [i \in 1..Len(cache) |-> IF cache[i].key = key THEN entry ELSE cache[i]]
          ELSE Append(cache, entry)

\* the read of the cache called name
CacheGet(name, cache, key, time) ==
    CASE name = "fast"     -> FastCacheGet(cache, key, time)
      [] name = "mx"       -> MXCacheGet(cache, key, time)
      [] name = "catchall" -> AsyncCatchallCheck(cache, key, time)
      [] name = "strict"   -> StrictIsCached(cache, key, time)

\* the time-to-live values the callers of FastCache.set pass for the MX
\* cache: MX_CACHE_TTL, and half of it for a failed query
FastTtls == {MX_CACHE_TTL, MX_CACHE_TTL \div 2}

\* the write of the cache called name
CacheSet(name, cache, key, value, ttl, time) ==
    CASE name = "fast"     -> FastCacheSet(cache, MX_CACHE_MAX_SIZE, key, value, ttl, time)
      [] name = "mx"       -> MXCacheSet(cache, key, value, time)
      [] name = "catchall" -> AsyncCatchallSet(cache, key, value, time)
      [] name = "strict"   -> StrictCacheSet(cache, key, value, time)

CacheInit ==
    /\ k_cache = [name \in CacheNames |-> <<>>]
    /\ k_read = <<>>
    /\ k_pending = {}
    /\ k_reads = 0

CacheRestUnchanged ==
    UNCHANGED <<fast_vars, async_vars, strict_vars, bulk_vars, dns_vars, idem_vars,
                score_vars, syntax_vars, pool_vars, throttle_vars, verifier_vars,
                retry_vars, late_vars>>

\* A read of key in the cache called name.  The record of the read keeps
\* what the cache held for the key before it (found, expires_at, stored),
\* the time and what the read answered.
CacheRead(name, key) ==
    /\ k_reads < MaxReads
    /\ IF k_read = <<>> THEN TRUE ELSE k_read[1].name = name
    /\ <<name, key>> \notin k_pending
    /\ k_reads' = k_reads + 1
    /\ \E got \in {CacheGet(name, k_cache[name], key, now)} :
         /\ k_cache' = [k_cache EXCEPT ![name] = got.cache]
         /\ k_read' = <<[name |-> name, key |-> key, time |-> now,
                         found |-> CacheHas(k_cache[name], key),
                         expires_at |-> IF CacheHas(k_cache[name], key)
                                          THEN CacheEntryOf(k_cache[name], key).expires_at
                                          ELSE 0,
                         stored |-> IF CacheHas(k_cache[name], key)
                                      THEN CacheEntryOf(k_cache[name], key).value
                                      ELSE <<>>,
                         hit |-> got.hit, value |-> got.value]>>
         /\ k_pending' = IF got.hit THEN k_pending ELSE k_pending \cup {<<name, key>>}
    /\ UNCHANGED now
    /\ CacheRestUnchanged

\* the caller that was told "absent" has resolved the key and writes it
CacheResolved(name, key, value, ttl) ==
    /\ <<name, key>> \in k_pending
    /\ k_pending' = k_pending \ {<<name, key>>}
    /\ k_cache' = [k_cache EXCEPT ![name] = CacheSet(name, @, key, value, ttl, now)]
    /\ UNCHANGED <<now, k_read, k_reads>>
    /\ CacheRestUnchanged

CacheNext ==
    \/ Tick
    \/ \E name \in CacheNames, key \in CacheKeys : CacheRead(name, key)
    \/ \E name \in CacheNames, key \in CacheKeys, value \in CacheValues, ttl \in FastTtls :
          CacheResolved(name, key, value, ttl)

(***************************************************************************)
(* Properties of the fast pipeline                                         *)
(***************************************************************************)
\* a validation has returned
FastDone == f_pc = "done"

\* the syntax verdict on the cleaned address
f_syntax == check_syntax_fast(f_result.email)

\* the recipient probe whose answer verify_smtp came back with
LastProbe == f_log[Len(f_log)]

Answered(entry, codes) == entry.kind = "response" /\ entry.code \in codes

\* the domain's MX list is known to be non-empty: resolved by this
\* validation, or held unexpired by the cache
MxResolvable ==
    \/ Len(f_mx_hosts) > 0
    \/ /\ CacheHas(mx_cache, f_syntax.domain)
       /\ Len(CacheEntryOf(mx_cache, f_syntax.domain).value) > 0
       /\ now < CacheEntryOf(mx_cache, f_syntax.domain).expires_at

\* valid syntax on a non-trusted, non-disposable, non-blacklisted domain with
\* a resolvable MX
PlainDomain ==
    /\ f_syntax.valid
    /\ f_syntax.domain \notin TRUSTED_PROVIDERS
    /\ ~check_disposable_fast(f_syntax.domain)
    /\ f_syntax.domain \notin BLACKLIST_DOMAINS
    /\ Len(f_mx_hosts) > 0

\* C1: in the fast pipeline, for an address with valid syntax on a
\* non-trusted, non-disposable, non-blacklisted domain with a resolvable MX,
\* when every recipient probe made answers 450 the terminal status is
\* "unknown" (so never "invalid"); and the same holds of what verify_smtp
\* returns, with or without its greylisting retry, when the first session and
\* the retry both answer 450.
C1_GreylistingIsUnknown ==
    /\ (/\ FastDone
        /\ PlainDomain
        /\ Len(f_log) > 0
        /\ \A i \in 1..Len(f_log) : Answered(f_log[i], {450}))
          => f_result.status = "unknown"
    /\ (f_pc = "smtp_wait" /\ PlainDomain)
          => \A retry \in BOOLEAN : \A m1, m2 \in SmtpMessages :
                 LET plan == [h \in 1..Min(Len(f_mx_hosts), MAX_MX_HOSTS_TO_TRY) |->
                                  <<Response(450, m1), Response(450, m2)>>]
                     smtp == verify_smtp(f_mx_hosts, retry, plan)
                 IN  AfterSmtp(f_result, smtp.result).result.status = "unknown"

\* a validation whose only probe answered 450 has returned "unknown"
C1_Witness ==
    /\ FastDone
    /\ PlainDomain
    /\ Len(f_log) = 1
    /\ Answered(f_log[1], {450})
    /\ f_result.status = "unknown"
    /\ f_result.smtp_code = 450

\* C2 (as claimed): in the fast pipeline, for an address with valid syntax on
\* a non-trusted, non-disposable, non-blacklisted, non-catch-all domain with a
\* resolvable MX, when the first recipient probe answers 450 and the host
\* answers 250 to a retry of it, the terminal status is the positive status
\* ("safe", or "role" for a role local part), not "unknown".
C2_GreylistingRetrySucceeds ==
    (/\ FastDone
     /\ PlainDomain
     /\ ~f_result.is_catch_all
     /\ Len(f_plan) > 0
     /\ Len(f_plan[1]) = 2
     /\ f_plan[1][1] = [kind |-> "response", code |-> 450]
     /\ f_plan[1][2] = [kind |-> "response", code |-> 250])
       => f_result.status \in {"safe", "role"}

\* C5: in the fast pipeline, when the probe of the real address is positive
\* and the two probes of synthetic addresses at the same (non-trusted) domain
\* are made and both answer 250, the terminal status is "catch_all", neither
\* "safe" nor "role", whether the local part is a role name or not.
C5_CatchAllDetected ==
    (/\ FastDone
     /\ Len(f_log) > 0
     /\ Answered(LastProbe, VALID_CODES)
     /\ Len(f_ca_log) = 2
     /\ \A k \in 1..2 :
            /\ Len(f_ca_log[k]) > 0
            /\ Answered(f_ca_log[k][Len(f_ca_log[k])], {250}))
       => /\ f_result.status = "catch_all"
          /\ f_result.is_catch_all
          /\ ~f_result.is_safe_to_send

\* a role address on a domain that accepted both synthetic addresses
C5_Witness ==
    /\ FastDone
    /\ check_role_fast(f_syntax.local)
    /\ Len(f_log) > 0
    /\ Answered(LastProbe, {250})
    /\ Len(f_ca_log) = 2
    /\ Answered(f_ca_log[1][1], {250})
    /\ Answered(f_ca_log[2][1], {250})
    /\ f_result.status = "catch_all"

\* valid syntax, a trusted provider's domain with a resolvable MX, and a local
\* part that passes the provider's username rule
TrustedAddress ==
    /\ f_syntax.valid
    /\ f_syntax.domain \in TRUSTED_PROVIDERS
    /\ MxResolvable
    /\ username_valid(f_syntax.local, f_syntax.domain)

NoProbe == f_log = <<>> /\ f_ca_log = <<>>

SyntaxReasons ==
    {"Empty or invalid email", "Email too long", "Invalid @ symbol",
     "Invalid local part", "Invalid domain", "Invalid dots", "Invalid domain dots",
     "Invalid local characters", "Invalid domain format", "Invalid TLD"}

\* C7: for every address that fails the syntax check and whose domain part
\* (the text after the last "@") is disposable, the fast pipeline reports
\* "invalid" with the reason of the syntax check, never "disposable", and
\* sends no MX query and makes no probe.
C7_SyntaxBeforeDisposable ==
    (/\ FastDone
     /\ ~f_syntax.valid
     /\ check_disposable_fast(AfterLastAt(f_result.email)))
       => /\ f_result.status = "invalid"
          /\ f_result.reason = f_syntax.reason
          /\ f_result.reason \in SyntaxReasons
          /\ f_dns = 0
          /\ NoProbe

\* an address with doubled dots on a disposable domain, reported "invalid"
C7_Witness ==
    /\ FastDone
    /\ ~f_syntax.valid
    /\ AfterLastAt(f_result.email) \in DISPOSABLE_DOMAINS
    /\ f_result.status = "invalid"
    /\ f_result.reason = "Invalid dots"

SigSyntax == f_syntax.valid
SigBlacklisted == f_syntax.domain \in BLACKLIST_DOMAINS
SigSpamtrap == check_spamtrap_fast(f_result.email, f_syntax.domain)
SigDisposable == check_disposable_fast(f_syntax.domain)
SigMx == Len(f_mx_hosts) > 0
SigTrusted == f_syntax.domain \in TRUSTED_PROVIDERS
SigUsername == username_valid(f_syntax.local, f_syntax.domain)
SigRole == check_role_fast(f_syntax.local)
SigProbe(codes) == Len(f_log) > 0 /\ Answered(LastProbe, codes)
\* the two synthetic probes were both positive, or the cache held the verdict
SigCatchAll ==
    IF Len(f_ca_log) = 2
      THEN \A k \in 1..2 : /\ Len(f_ca_log[k]) > 0
                           /\ Answered(f_ca_log[k][Len(f_ca_log[k])], {250, 251})
      ELSE /\ CacheHas(catchall_cache, f_syntax.domain)
           /\ CacheEntryOf(catchall_cache, f_syntax.domain).value = TRUE

\* the first matching rule of the list as claimed
ClaimedStatus ==
    IF ~SigSyntax THEN "invalid"
    ELSE IF ~SigMx THEN "invalid"
    ELSE IF SigDisposable THEN "disposable"
    ELSE IF SigBlacklisted THEN "invalid"
    ELSE IF SigProbe({550, 551, 553, 554}) THEN "invalid"
    ELSE IF SigProbe({250, 251}) /\ SigCatchAll THEN "catch_all"
    ELSE IF SigProbe({452, 552}) THEN "inbox_full"
    ELSE IF SigRole THEN "role"
    ELSE IF SigProbe({250, 251}) \/ SigTrusted THEN "safe"
    ELSE "unknown"

FirstMatchingRule ==
    IF ~SigSyntax THEN "invalid"
    ELSE IF SigBlacklisted THEN "spamtrap"
    ELSE IF SigSpamtrap THEN "spamtrap"
    ELSE IF SigDisposable THEN "disposable"
    ELSE IF ~SigMx THEN "unknown"
    ELSE IF SigTrusted
      THEN IF ~SigUsername THEN "invalid"
           ELSE IF SigRole THEN "role" ELSE "safe"
    ELSE IF SigProbe({550, 551, 553}) THEN "invalid"
    ELSE IF SigProbe({554}) THEN "disabled"
    ELSE IF SigProbe({552, 422, 452}) THEN "inbox_full"
    ELSE IF SigProbe({250, 251})
      THEN IF SigCatchAll THEN "catch_all"
           ELSE IF SigRole THEN "role" ELSE "safe"
    ELSE "unknown"

AsyncDone == a_pc = "done"

\* the syntax verdict on the cleaned address
a_syntax == check_rfc_syntax(a_result.email)

\* valid syntax on a non-trusted, non-disposable, non-blacklisted domain with
\* a resolvable MX
AsyncPlainDomain ==
    /\ a_syntax.valid
    /\ AsyncDomainOf(a_result) \notin ASYNC_TRUSTED_PROVIDERS
    /\ ~check_disposable(AsyncDomainOf(a_result))
    /\ ~check_blacklist(AsyncDomainOf(a_result))
    /\ Len(a_mx_hosts) > 0

\* the probe ended with a connect timeout, a command timeout or a connection
\* failure on every host tried
EveryHostTimedOutOrFailed ==
    /\ Len(a_log) > 0
    /\ \A i \in 1..Len(a_log) :
          a_log[i].kind \in {"connect_timeout", "command_timeout", "connect_failed"}

\* C3: in the default pipeline, for an address with valid syntax on a
\* non-trusted, non-disposable, non-blacklisted domain with a resolvable MX,
\* when the probe ends with a connect timeout, a command timeout or a
\* connection failure on every host tried, the terminal status is "Unknown"
\* and not "Invalid".
C3_TimeoutIsUnknown ==
    (AsyncDone /\ AsyncPlainDomain /\ EveryHostTimedOutOrFailed)
        => (a_result.status = "Unknown" /\ a_result.status # "Invalid")

\* a validation of an address with valid syntax has returned, its domain
\* having no resolvable mail exchange
AsyncNoMx == AsyncDone /\ a_syntax.valid /\ Len(a_mx_hosts) = 0

\* what the fast pipeline returns for the address when its domain has no
\* resolvable mail exchange: the result of the local checks when they end
\* the validation, else the result after an empty MX list
FastResultWithoutMx(raw) ==
    LET local == LocalChecks(raw)
    IN  IF local.done THEN local.result ELSE AfterMx(local.result, <<>>).result

StrictDone == s_pc = "done"

\* task i has completed with a reply to RCPT TO bearing one of the codes
StrictAnswered(i, codes) ==
    /\ s_tasks[i].state = "done"
    /\ s_tasks[i].outcome.kind = "response"
    /\ s_tasks[i].outcome.code \in codes

\* C4: in the strict verifier a session that ends with a connect timeout, a
\* command timeout, a connection error or any other exception gives its host
\* the status NEUTRAL; and a call of verify with a non-empty host list
\* returns INVALID only if some host answered RCPT TO with 550, 551, 553 or
\* 554, whatever the outcomes of the raced hosts and the order they complete
\* in.
C4_FailuresAreNeutral ==
    /\ \A i \in 1..Len(s_tasks) :
          (s_tasks[i].state = "done" /\ s_tasks[i].outcome.kind # "response")
              => s_tasks[i].result.status = "NEUTRAL"
    /\ (StrictDone /\ Len(s_hosts) > 0 /\ s_result.status = "INVALID")
          => \E i \in 1..Len(s_tasks) : StrictAnswered(i, {550, 551, 553, 554})

\* a race of two hosts returned INVALID: one host timed out, the other
\* rejected the recipient
C4_Witness ==
    /\ StrictDone
    /\ Len(s_hosts) = 2
    /\ s_result.status = "INVALID"
    /\ \E i, j \in 1..Len(s_tasks) :
          /\ s_tasks[i].state = "done"
          /\ s_tasks[i].outcome.kind \in {"connect_timeout", "command_timeout"}
          /\ s_tasks[i].result.status = "NEUTRAL"
          /\ StrictAnswered(j, {550, 551, 553, 554})

\* the class the response-code table gives a code
StrictTableClass(code) ==
    IF code \in {250, 251} THEN "VALID"
    ELSE IF code \in {452, 552} THEN "RISKY"
    ELSE IF code \in {450, 451, 421} THEN "NEUTRAL"
    ELSE IF code \in {550, 551, 553, 554} THEN "INVALID"
    ELSE "NEUTRAL"

\* C11: _interpret_response agrees with the response-code table for every
\* code and every message text: 250 and 251 VALID, 452 and 552 RISKY,
\* 450/451/421 NEUTRAL, 550/551/553/554 INVALID, any other code NEUTRAL; the
\* message text never changes the class of a code.
C11_CodeFirstTable ==
    \A i \in 1..Len(s_tasks) :
        (s_tasks[i].state = "done" /\ s_tasks[i].outcome.kind = "response")
            => /\ s_tasks[i].result.status = StrictTableClass(s_tasks[i].outcome.code)
               /\ \A m \in StrictMessages :
                     _interpret_response(s_tasks[i].outcome.code, m).status
                         = s_tasks[i].result.status

(***************************************************************************)
(* Claims about validate_bulk (SpecBulk)                                   *)
(***************************************************************************)
\* validate_bulk has returned
BulkDone == b_pc = "done"

\* the addresses of the results returned
ResultEmails == {b_results[i].email : i \in 1..Len(b_results)}

\* the input trimmed and case-folded, duplicates collapsed
NormalizedInputs == {CleanEmail(b_emails[k]) : k \in 1..Len(b_emails)}

\* the same without the blank elements of the input
NormalizedAddresses ==
    {CleanEmail(b_emails[k]) : k \in {j \in 1..Len(b_emails) : Len(Strip(b_emails[j])) > 0}}

\* C12 as stated: validate_bulk returns exactly one result for each element
\* of the input trimmed, case-folded and deduplicated, and no other result.
C12_OneResultPerInput_AsClaimed ==
    BulkDone => /\ ResultEmails = NormalizedInputs
                /\ Len(b_results) = Cardinality(NormalizedInputs)

\* C12: validate_bulk returns exactly one result for each non-blank element
\* of the input trimmed, case-folded and deduplicated, and no other result:
\* no duplicate and no omission, whatever the outcomes of the addresses.
C12_OneResultPerInput ==
    BulkDone => /\ ResultEmails = NormalizedAddresses
                /\ Len(b_results) = Cardinality(NormalizedAddresses)

\* two elements that differ in case and blanks came back as one result
C12_Witness ==
    /\ BulkDone
    /\ Len(b_results) = 1
    /\ \E j, k \in 1..Len(b_emails) :
          /\ b_emails[j] # b_emails[k]
          /\ CleanEmail(b_emails[j]) = CleanEmail(b_emails[k])
          /\ Len(Strip(b_emails[j])) > 0

C14_FailureIsUnknown ==
    BulkDone =>
        \A i \in 1..Len(b_tasks) :
            b_tasks[i].state = "raised"
                => b_results[i].status \in {"unknown", "Unknown", "UNKNOWN", "NEUTRAL"}

\* C15: one validate_bulk call of the default validator sends at most as
\* many MX queries as its addresses have distinct domains, whether the
\* domains resolve, fail or time out.
C15_OneQueryPerDomain ==
    b_which = "async" => b_queries <= Cardinality(BulkDomains("async", b_unique))

(***************************************************************************)
(* Claims about the resolvers (SpecDns)                                    *)
(***************************************************************************)
\* the calls for the domain of call j that had returned when call j started
ReturnedBefore(j) ==
    {i \in 1..d_log[j].began :
        d_log[i].which = d_log[j].which /\ d_log[i].domain = d_log[j].domain}

\* the last of them: the call that left the cache entry call j found,
\* unless the entry had expired
LastReturnedBefore(j) ==
    CHOOSE i \in ReturnedBefore(j) : \A k \in ReturnedBefore(j) : k <= i

SecondReturnedWithinTtl ==
    /\ i_run >= 2
    /\ i_pc = "done"
    /\ i_first # <<>>
    /\ i_start < i_first[1].start + MX_CACHE_TTL

\* C17: an address validated twice by the fast pipeline, the second time
\* within the cache TTL and with the DNS and the hosts answering as they
\* did the first time, gets the same status and the same score both times.
C17_Idempotent ==
    SecondReturnedWithinTtl
        => /\ i_result.status = i_first[1].status
           /\ i_result.deliverability_score = i_first[1].score

\* a second validation that took the MX list and the catch-all verdict from
\* the caches and returned catch_all with the score of the first
C17_Witness ==
    /\ SecondReturnedWithinTtl
    /\ i_hits = 2
    /\ i_result.status = "catch_all"
    /\ i_first[1].status = "catch_all"
    /\ i_result.deliverability_score = i_first[1].score

(***************************************************************************)
(* Claims about the statuses of the fast validator                         *)
(***************************************************************************)
\* the results the fast validate_bulk returned
FastBulkResults ==
    IF BulkDone /\ b_which = "fast" THEN {b_results[i] : i \in 1..Len(b_results)}
    ELSE {}

FastStatusesAsClaimed ==
    {"valid", "role", "catch_all", "disposable", "inbox_full", "invalid", "unknown"}

\* the statuses _validate_single assigns
FastStatuses ==
    {"safe", "role", "catch_all", "disposable", "inbox_full", "invalid", "unknown",
     "spamtrap", "disabled"}

C19_AsyncStatusSet ==
    a_pc = "done" => a_result.status \in {"VALID", "INVALID", "RISKY", "NEUTRAL"}

(***************************************************************************)
(* Claims about the score (SpecScore)                                      *)
(***************************************************************************)
\* C20: the score never overrides the status the rules give: for the same
\* phase results classify_status returns the same status for every score
\* from 0 to 100, and calculate_full_score leaves the status of the result
\* it scores unchanged.
C20_ScoreNeverOverrides ==
    /\ c_first # <<>> => c_status[1].status = c_first[1].status
    /\ c_scored # <<>> => c_scored[2] = c_scored[1]

(***************************************************************************)
(* Claims about the syntax checks (SpecSyntax)                             *)
(***************************************************************************)
\* the string has two or more @, or two dots in a row
TwoAtsOrDoubleDot ==
    CountChar(x_email, "@") >= 2 \/ Contains(x_email, <<".", ".">>)

\* C21: a string with two or more @ characters or with two consecutive
\* dots is invalid for check_syntax_fast and for validate_syntax, whatever
\* the rest of the string.
C21_AtAndDotsInvalid ==
    TwoAtsOrDoubleDot
        => /\ x_fast # <<>> => ~x_fast[1].valid
           /\ x_strict # <<>> => x_strict[1].status = "invalid"

\* both checks have rejected a string with two @
C21_Witness ==
    /\ x_email = <<"a","@","a","@","a","a">>
    /\ x_fast # <<>> /\ ~x_fast[1].valid
    /\ x_strict # <<>> /\ x_strict[1].status = "invalid"

(***************************************************************************)
(* Claims about the gates of the strict validator (SpecBulk)               *)
(***************************************************************************)
StagesValid(result) ==
    result.syntax = "valid" /\ result.domain = "valid" /\ result.mx = "valid"

\* the strict validate_bulk is running or has returned
StrictBulk == b_which = "strict" /\ b_pc \in {"validating", "done"}

C23_PoolExclusive ==
    /\ \A c1 \in PoolCallers : \A c2 \in PoolCallers \ {c1} :
         p_call[c1].conn # 0 => p_call[c1].conn # p_call[c2].conn
    /\ p_which = "domain" =>
         \A c \in PoolCallers : \A i \in 1..Len(p_pool) : p_pool[i] # p_call[c].conn

\* two callers hold sessions of the async pool at once, one of them a
\* session that an earlier call opened and released
C23_Witness ==
    /\ p_which = "async"
    /\ p_calls = 3
    /\ p_call[1].pc = "session"
    /\ p_call[2].pc = "session"
    /\ p_call[1].conn # p_call[2].conn
    /\ {p_call[1].conn, p_call[2].conn} \subseteq p_open
    /\ Len(p_pool) = 2
    /\ \A i \in 1..2 : p_pool[i].in_use

\* C24: when _check_smtp has returned, every session the call opened or
\* acquired is back in the pool and not in use, or closed: the call left
\* no session connected outside the pool.
C24_NoSessionLeak ==
    \A c \in PoolCallers :
        (p_which = "async" /\ p_call[c].pc = "returned") => p_call[c].left = {}

\* C26: a call of _check_smtp sends no more recipient probes to the hosts
\* of the domain than the times it has passed the throttler of the domain.
C26_EveryProbeThrottled ==
    \A c \in PoolCallers :
        p_which = "async" => p_call[c].probes <= p_call[c].passes

\* C25: for every domain and every interleaving of the callers of
\* DomainThrottler.acquire, two successive returns of acquire for the domain
\* are at least the minimum interval of the domain apart (1/rate: 100 ms for
\* gmail.com, 125 ms for yahoo.com, 50 ms for an unlisted domain), and the
\* recorded last-probe time, which is the instant of the latest return,
\* never decreases.
C25_ThrottleSpacing ==
    \A d \in ThrottleDomains :
        /\ \A i \in 1..(Len(t_returns[d]) - 1) :
               t_returns[d][i + 1] - t_returns[d][i] >= _get_interval(d)
        /\ Len(t_returns[d]) > 0 => t_last[d] = t_returns[d][Len(t_returns[d])]

\* acquire returned twice for one domain, the second time within a tick of
\* the end of the interval, and a third call is asleep in acquire for the
\* domain
C25_Witness ==
    \E d \in ThrottleDomains :
        /\ Len(t_returns[d]) = 2
        /\ t_returns[d][2] - t_returns[d][1] < _get_interval(d) + ThrottleTick
        /\ \E c \in Throttlers : t_call[c].pc = "sleeping" /\ t_call[c].domain = d

\* C27: at every moment, under any number of concurrent verify calls, the
\* SMTP sessions opened by StrictSMTPVerifier and not yet closed are at
\* most MAX_CONCURRENT_SMTP.
C27_SessionBound == OpenSessions <= MAX_CONCURRENT_SMTP

Definitive(result) == result.status \in {"VALID", "INVALID"}

\* C28: in the race of verify, as soon as a task yields a definitive result
\* (VALID or INVALID) verify returns that result without waiting for the
\* other tasks -- it is never suspended in the race after it has seen a
\* definitive result -- and every task still pending at that moment has
\* been cancelled; the permit is released on every path: whenever no call
\* is inside verify the semaphore has all its permits.
C28_RaceFirstDefinitive ==
    /\ s_pc \in {"idle", "done"} => s_permits = MAX_CONCURRENT_SMTP
    /\ s_pc \in {"single", "racing"} => s_permits = MAX_CONCURRENT_SMTP - 1
    /\ s_pc = "racing" =>
         \A i \in 1..Len(s_tasks) : s_tasks[i].seen => ~Definitive(s_tasks[i].result)
    /\ (/\ s_pc = "done"
        /\ Len(s_tasks) > 1
        /\ \E i \in 1..Len(s_tasks) : s_tasks[i].seen /\ Definitive(s_tasks[i].result)) =>
         /\ Definitive(s_result)
         /\ \E i \in 1..Len(s_tasks) : s_tasks[i].seen /\ s_tasks[i].result = s_result
         /\ \A i \in 1..Len(s_tasks) : s_tasks[i].state \in {"done", "cancelled"}

\* verify has returned the definitive result of one raced host while the
\* session with the other was under way, and that task is cancelled
C28_Witness ==
    /\ s_pc = "done"
    /\ Len(s_tasks) = 2
    /\ Definitive(s_result)
    /\ \E i \in 1..2 : s_tasks[i].state = "cancelled"
    /\ \E i \in 1..2 : s_tasks[i].state = "done" /\ s_tasks[i].result = s_result
    /\ s_permits = MAX_CONCURRENT_SMTP

\* the recipient probes verify_smtp made on host h
ProbesOn(log, h) == {k \in 1..Len(log) : log[k].host = h}

\* C29: for every sequence of answers verify_smtp makes a second probe on a
\* host only after a greylisted first answer (450, 451 or 421) and when
\* retry_greylisting is set, and never a third; a greylisted answer to the
\* second probe ends the call with status greylisted; the call returns
\* after at most two recipient probes per host and probes at most
\* MAX_MX_HOSTS_TO_TRY hosts.
C29_BoundedGreylistRetry ==
    g_out # <<>> =>
        LET log == g_out[1].log
            result == g_out[1].result
        IN  /\ \A k \in 1..Len(log) :
                 /\ log[k].host \in 1..Min(Len(g_hosts), MAX_MX_HOSTS_TO_TRY)
                 /\ log[k].attempt \in {1, 2}
                 /\ log[k].attempt = 2 =>
                      /\ g_retry
                      /\ k > 1
                      /\ log[k - 1].host = log[k].host
                      /\ log[k - 1].attempt = 1
                      /\ log[k - 1].code \in GREYLISTING_CODES
                      /\ log[k].code \in GREYLISTING_CODES =>
                           /\ k = Len(log)
                           /\ result.status = <<"g","r","e","y","l","i","s","t","e","d">>
                           /\ result.greylisted
                           /\ ~result.valid
            /\ \A h \in 1..Len(g_hosts) : Cardinality(ProbesOn(log, h)) <= 2
            /\ Len(log) <= 2 * MAX_MX_HOSTS_TO_TRY

\* a host of a list of two answers 450 and, to the one retry, 451: the call
\* ends as greylisted after two probes
C29_Witness ==
    /\ g_out # <<>>
    /\ g_retry
    /\ Len(g_hosts) = 2
    /\ Len(g_out[1].log) = 2
    /\ g_out[1].log[1].code = 450
    /\ g_out[1].log[2].code = 451
    /\ g_out[1].result.status = <<"g","r","e","y","l","i","s","t","e","d">>

\* C30: a cache read (FastCache.get, MXCache.get, _is_cached, the catch-all
\* cache check of the async validator) returns a value only when the entry
\* of the key expires later than the time of the read, and then the value
\* stored; an entry whose expiry is not later than the time of the read is
\* reported absent, and the caller resolves the key again.
C30_NoStaleRead ==
    k_read # <<>> =>
        LET read == k_read[1]
        IN  /\ read.hit => (read.found /\ read.expires_at > read.time
                            /\ read.value = read.stored)
            /\ (read.found /\ read.expires_at <= read.time) => ~read.hit
            /\ ~read.hit =>
                 \/ <<read.name, read.key>> \in k_pending
                 \/ (/\ CacheHas(k_cache[read.name], read.key)
                     /\ CacheEntryOf(k_cache[read.name], read.key).expires_at > read.time)

\* an entry was read when its expiry was not later than the time: it was
\* reported absent and the key is being resolved again
C30_Witness ==
    /\ k_read # <<>>
    /\ k_read[1].found
    /\ k_read[1].expires_at <= k_read[1].time
    /\ ~k_read[1].hit
    /\ <<k_read[1].name, k_read[1].key>> \in k_pending

(***************************************************************************)
(* One domain's pool used by any number of callers, its sessions counted.  *)
(*                                                                         *)
(* "async": the entries of self._pools[domain] of async_validator.py.  The *)
(* list is appended to inside the domain's lock with created_at the time   *)
(* of the append, so it is ordered by creation time: the entries are       *)
(* counted by creation time and by in_use, and "for conn in pool" meets    *)
(* the oldest ones first.  A caller is the holder of an entry in use; up   *)
(* to MAX_CONCURRENT_VALIDATIONS validations run at once, more than the    *)
(* pool can hold.                                                          *)
(* "domain": self.pool of smtp_pool.py, the list of the idle sessions,     *)
(* and the sessions its callers hold.                                      *)
(* A behaviour exercises one of the two pools, chosen by its first call.   *)
(***************************************************************************)
MaxCapTicks == 2
CapTickStep == 100
MaxHeld == 5

\* the instants the clock of this machine takes
CapTimes == {k * CapTickStep : k \in 0..MaxCapTicks}

CapZero == [t \in CapTimes |-> 0]

CapacityInit ==
    /\ q_which = "none"
    /\ q_in_use = CapZero
    /\ q_free = CapZero
    /\ q_lock = "free"
    /\ q_idle = 0
    /\ q_held = 0

CapacityRestUnchanged ==
    UNCHANGED <<fast_vars, async_vars, strict_vars, bulk_vars, dns_vars, idem_vars,
                score_vars, syntax_vars, pool_vars, throttle_vars, verifier_vars,
                retry_vars, cache_vars, health_vars,
                isolation_vars, last_vars>>

\* time passes, by a step longer than the time-outs that bound the awaits
\* inside the lock
CapTick ==
    /\ q_lock = "free"
    /\ now + CapTickStep \in CapTimes
    /\ now' = now + CapTickStep
    /\ UNCHANGED capacity_vars
    /\ CapacityRestUnchanged

\* PooledConnection.is_expired of an entry created at t
CapExpired(t, time) == IsExpired([created_at |-> t], time)

\* len(self._pools[domain])
CapTracked(in_use, free) ==
    LET RECURSIVE Sum(_)
        Sum(S) == IF S = {} THEN 0
                  ELSE LET t == CHOOSE x \in S : TRUE
                       IN  in_use[t] + free[t] + Sum(S \ {t})
    IN  Sum(CapTimes)

\* "self._pools[domain] = [c for c in pool if not c.is_expired()]"
CapPurged(count, time) == [t \in CapTimes |-> IF CapExpired(t, time) THEN 0 ELSE count[t]]

\* get_connection_counted with the capacity test one too generous
get_connection_counted_OneMore(in_use, free, time) ==
    LET usable == {t \in CapTimes : free[t] > 0 /\ ~CapExpired(t, time)}
    IN  IF usable # {}
          THEN LET t == CHOOSE x \in usable : \A y \in usable : x <= y
               IN  [reused |-> TRUE, connect |-> FALSE,
                    in_use |-> [in_use EXCEPT ![t] = @ + 1],
                    free |-> [free EXCEPT ![t] = @ - 1]]
        ELSE [reused |-> FALSE,
              connect |-> CapTracked(CapPurged(in_use, time), CapPurged(free, time))
                            <= POOL_SIZE_PER_DOMAIN,
              in_use |-> CapPurged(in_use, time),
              free |-> CapPurged(free, time)]

\* get_connection up to its first await, on the counted pool: the oldest
\* entry that is neither in use nor expired is marked in use and returned;
\* or the expired entries are dropped, and a connection is opened when the
\* entries left are fewer than POOL_SIZE_PER_DOMAIN
get_connection_counted(in_use, free, time) ==
    LET usable == {t \in CapTimes : free[t] > 0 /\ ~CapExpired(t, time)}
    IN  IF usable # {}
          THEN LET t == CHOOSE x \in usable : \A y \in usable : x <= y
               IN  [reused |-> TRUE, connect |-> FALSE,
                    in_use |-> [in_use EXCEPT ![t] = @ + 1],
                    free |-> [free EXCEPT ![t] = @ - 1]]
        ELSE [reused |-> FALSE,
              connect |-> CapTracked(CapPurged(in_use, time), CapPurged(free, time))
                            < POOL_SIZE_PER_DOMAIN,
              in_use |-> CapPurged(in_use, time),
              free |-> CapPurged(free, time)]

\* a caller enters get_connection when the domain's lock is free
CapGetConnection ==
    /\ q_which \in {"none", "async"}
    /\ q_lock = "free"
    /\ q_which' = "async"
    /\ \E got \in {get_connection_counted(q_in_use, q_free, now)} :
         /\ q_in_use' = got.in_use
         /\ q_free' = got.free
         /\ q_lock' = IF got.connect THEN "connect" ELSE "free"
    /\ UNCHANGED <<now, q_idle, q_held>>
    /\ CapacityRestUnchanged

\* "await smtp.connect()" is over: the new entry is appended in use, or the
\* exception makes get_connection return None
CapConnected(connected) ==
    /\ q_which = "async"
    /\ q_lock = "connect"
    /\ q_lock' = "free"
    /\ q_in_use' = IF connected THEN [q_in_use EXCEPT ![now] = @ + 1] ELSE q_in_use
    /\ UNCHANGED <<now, q_which, q_free, q_idle, q_held>>
    /\ CapacityRestUnchanged

\* release_connection by the holder of an entry created at t (for a session
\* that is no longer in the list it changes nothing)
CapRelease(t) ==
    /\ q_which = "async"
    /\ q_lock = "free"
    /\ q_in_use[t] > 0
    /\ q_in_use' = [q_in_use EXCEPT ![t] = @ - 1]
    /\ q_free' = [q_free EXCEPT ![t] = @ + 1]
    /\ UNCHANGED <<now, q_which, q_lock, q_idle, q_held>>
    /\ CapacityRestUnchanged

\* close_connection by the holder of an entry created at t, up to
\* "await smtp.quit()"
CapClose(t) ==
    /\ q_which = "async"
    /\ q_lock = "free"
    /\ q_in_use[t] > 0
    /\ q_in_use' = [q_in_use EXCEPT ![t] = @ - 1]
    /\ q_lock' = "quit"
    /\ UNCHANGED <<now, q_which, q_free, q_idle, q_held>>
    /\ CapacityRestUnchanged

\* smtp.quit() is over and close_connection leaves the lock
CapQuit ==
    /\ q_which = "async"
    /\ q_lock = "quit"
    /\ q_lock' = "free"
    /\ UNCHANGED <<now, q_which, q_in_use, q_free, q_idle, q_held>>
    /\ CapacityRestUnchanged

\* _release_connection: the length of the idle list after it
domain_release(idle) == IF idle < DOMAIN_POOL_MAX_SIZE THEN idle + 1 ELSE idle

\* "while self.pool: conn = self.pool.pop(0)" and what the lock's holder
\* awaits next
CapTake(idle) ==
    IF idle > 0 THEN [idle |-> idle - 1, lock |-> "health"]
    ELSE [idle |-> idle, lock |-> "create"]

\* a caller enters _acquire_connection when the lock is free
CapAcquire ==
    /\ q_which \in {"none", "domain"}
    /\ q_lock = "free"
    /\ q_held < MaxHeld
    /\ q_which' = "domain"
    /\ q_idle' = CapTake(q_idle).idle
    /\ q_lock' = CapTake(q_idle).lock
    /\ UNCHANGED <<now, q_in_use, q_free, q_held>>
    /\ CapacityRestUnchanged

\* _is_healthy answered: the session is returned, or it is closed and the
\* loop goes on
CapHealth(healthy) ==
    /\ q_which = "domain"
    /\ q_lock = "health"
    /\ IF healthy
         THEN /\ q_held' = q_held + 1
              /\ q_lock' = "free"
              /\ UNCHANGED q_idle
       ELSE /\ q_idle' = CapTake(q_idle).idle
            /\ q_lock' = CapTake(q_idle).lock
            /\ UNCHANGED q_held
    /\ UNCHANGED <<now, q_which, q_in_use, q_free>>
    /\ CapacityRestUnchanged

\* _create_connection returned a session or raised
CapCreated(connected) ==
    /\ q_which = "domain"
    /\ q_lock = "create"
    /\ q_lock' = "free"
    /\ q_held' = IF connected THEN q_held + 1 ELSE q_held
    /\ UNCHANGED <<now, q_which, q_in_use, q_free, q_idle>>
    /\ CapacityRestUnchanged

\* verify_email after its session: _release_connection when the host
\* answered, _close_connection after a timeout or an exception
CapSessionEnds(answered) ==
    /\ q_which = "domain"
    /\ q_held > 0
    /\ IF answered
         THEN /\ q_lock = "free"
              /\ q_idle' = domain_release(q_idle)
       ELSE UNCHANGED q_idle
    /\ q_held' = q_held - 1
    /\ UNCHANGED <<now, q_which, q_in_use, q_free, q_lock>>
    /\ CapacityRestUnchanged

CapacityNext ==
    \/ CapTick
    \/ CapGetConnection
    \/ \E connected \in BOOLEAN : CapConnected(connected)
    \/ \E t \in CapTimes : CapRelease(t)
    \/ \E t \in CapTimes : CapClose(t)
    \/ CapQuit
    \/ CapAcquire
    \/ \E healthy \in BOOLEAN : CapHealth(healthy)
    \/ \E connected \in BOOLEAN : CapCreated(connected)
    \/ \E answered \in BOOLEAN : CapSessionEnds(answered)

(***************************************************************************)
(* One domain's pool whose sessions the servers may drop while they are    *)
(* idle or held.                                                           *)
(*                                                                         *)
(* "domain": _acquire_connection, _create_connection and the end of        *)
(* verify_email of smtp_pool.py.  "async": get_connection,                 *)
(* release_connection and close_connection of async_validator.py, all      *)
(* within CONNECTION_TTL of the start (the clock stands still).            *)
(* A behaviour exercises one of the two pools, chosen by its first call.   *)
(***************************************************************************)
MaxHealthSessions == 3
MaxHealthHeld == 2
MaxHealthHosts == 2

\* self.mx_hosts, in the order given to the pool, and which of them accept
\* a connection now
HealthHosts == 1..MaxHealthHosts
HealthReachable == [HealthHosts -> BOOLEAN]

HealthInit ==
    /\ h_which = "none"
    /\ h_pool = <<>>
    /\ h_alive = {}
    /\ h_open = {}
    /\ h_held = {}
    /\ h_acq = <<>>
    /\ h_failed = {}
    /\ h_out = <<>>
    /\ h_made = 0

HealthRestUnchanged ==
    UNCHANGED <<now, fast_vars, async_vars, strict_vars, bulk_vars, dns_vars, idem_vars,
                score_vars, syntax_vars, pool_vars, throttle_vars, verifier_vars,
                retry_vars, cache_vars, capacity_vars,
                isolation_vars, last_vars>>

\* the server of a session drops it
HealthDrops(s) ==
    /\ s \in h_alive
    /\ h_alive' = h_alive \ {s}
    /\ UNCHANGED <<h_which, h_pool, h_open, h_held, h_acq, h_failed, h_out, h_made>>
    /\ HealthRestUnchanged

\* "while self.pool: conn = self.pool.pop(0)": the session whose health is
\* awaited next, or none and a connection is created
HealthTake(pool) ==
    IF Len(pool) > 0 THEN [pool |-> Tail(pool), acq |-> <<Head(pool)>>]
    ELSE [pool |-> pool, acq |-> <<0>>]

\* a caller enters _acquire_connection (the lock is free: no other acquire
\* is under way)
HealthAcquire ==
    /\ h_which \in {"none", "domain"}
    /\ h_acq = <<>>
    /\ Cardinality(h_held) < MaxHealthHeld
    /\ h_which' = "domain"
    /\ h_pool' = HealthTake(h_pool).pool
    /\ h_acq' = HealthTake(h_pool).acq
    /\ UNCHANGED <<h_alive, h_open, h_held, h_failed, h_out, h_made>>
    /\ HealthRestUnchanged

\* _is_healthy: conn.is_connected and a NOOP answered within its time-out
_is_healthy(alive, answered) == alive /\ answered

\* "if await self._is_healthy(conn): return conn", else the session is
\* closed and the loop goes on
HealthChecked(answered) ==
    /\ h_which = "domain"
    /\ h_acq # <<>>
    /\ h_acq[1] # 0
    /\ IF _is_healthy(h_acq[1] \in h_alive, answered)
         THEN /\ h_out' = <<[conn |-> h_acq[1], reused |-> TRUE, checked |-> TRUE,
                             alive |-> h_acq[1] \in h_alive,
                             failed |-> h_acq[1] \in h_failed, host |-> 0,
                             reachable |-> [h \in HealthHosts |-> FALSE]]>>
              /\ h_held' = h_held \cup {h_acq[1]}
              /\ h_acq' = <<>>
              /\ UNCHANGED <<h_pool, h_open, h_failed>>
       ELSE /\ h_open' = h_open \ {h_acq[1]}
            /\ h_failed' = h_failed \cup {h_acq[1]}
            /\ h_pool' = HealthTake(h_pool).pool
            /\ h_acq' = HealthTake(h_pool).acq
            /\ UNCHANGED <<h_held, h_out>>
    /\ UNCHANGED <<h_which, h_alive, h_made>>
    /\ HealthRestUnchanged

\* _create_connection: the hosts are tried in order and the first that
\* accepts the connection and answers EHLO is the one; 0 when all failed
_create_connection(reachable) ==
    IF \E h \in HealthHosts : reachable[h]
      THEN CHOOSE h \in HealthHosts : reachable[h] /\ \A g \in HealthHosts : reachable[g] => h <= g
    ELSE 0

\* "return await self._create_connection()": a session to the host found,
\* or the exception that ends verify_email
HealthCreated(reachable) ==
    /\ h_which = "domain"
    /\ h_acq = <<0>>
    /\ h_made < MaxHealthSessions
    /\ h_acq' = <<>>
    /\ IF _create_connection(reachable) # 0
         THEN /\ h_made' = h_made + 1
              /\ h_alive' = h_alive \cup {h_made + 1}
              /\ h_open' = h_open \cup {h_made + 1}
              /\ h_held' = h_held \cup {h_made + 1}
              /\ h_out' = <<[conn |-> h_made + 1, reused |-> FALSE, checked |-> FALSE,
                             alive |-> TRUE, failed |-> FALSE,
                             host |-> _create_connection(reachable),
                             reachable |-> reachable]>>
       ELSE UNCHANGED <<h_made, h_alive, h_open, h_held, h_out>>
    /\ UNCHANGED <<h_which, h_pool, h_failed>>
    /\ HealthRestUnchanged

\* the end of verify_email for the session s: _release_connection when the
\* commands were answered, _close_connection otherwise
HealthReleased(s, answered) ==
    /\ h_which = "domain"
    /\ s \in h_held
    /\ h_held' = h_held \ {s}
    /\ IF answered /\ s \in h_alive
         THEN /\ h_acq = <<>>
              /\ IF Len(h_pool) < DOMAIN_POOL_MAX_SIZE
                   THEN h_pool' = Append(h_pool, s) /\ UNCHANGED h_open
                 ELSE h_open' = h_open \ {s} /\ UNCHANGED h_pool
       ELSE h_open' = h_open \ {s} /\ UNCHANGED h_pool
    /\ UNCHANGED <<h_which, h_alive, h_acq, h_failed, h_out, h_made>>
    /\ HealthRestUnchanged

\* get_connection of the async pool, with the outcome of the connect it may
\* make
HealthGetConnection(connected) ==
    /\ h_which \in {"none", "async"}
    /\ Cardinality(h_held) < MaxHealthHeld
    /\ h_made < MaxHealthSessions
    /\ h_which' = "async"
    /\ \E got \in {get_connection(h_pool, connected, now)} :
         /\ h_pool' = got.pool
         /\ IF got.conn = 0
              THEN UNCHANGED <<h_alive, h_open, h_held, h_out, h_made>>
            ELSE /\ h_held' = h_held \cup {got.conn}
                 /\ h_alive' = IF got.reused THEN h_alive ELSE h_alive \cup {got.conn}
                 /\ h_open' = h_open \cup {got.conn}
                 /\ h_made' = IF got.reused THEN h_made ELSE h_made + 1
                 /\ h_out' = <<[conn |-> got.conn, reused |-> got.reused, checked |-> FALSE,
                                alive |-> got.reused => got.conn \in h_alive,
                                failed |-> got.conn \in h_failed, host |-> 0,
                                reachable |-> [h \in HealthHosts |-> FALSE]]>>
    /\ UNCHANGED <<h_acq, h_failed>>
    /\ HealthRestUnchanged

\* _check_smtp after its session on s: release_connection when RCPT TO was
\* answered, close_connection after a time-out or an exception
HealthAsyncEnds(s, answered) ==
    /\ h_which = "async"
    /\ s \in h_held
    /\ h_held' = h_held \ {s}
    /\ IF answered /\ s \in h_alive
         THEN h_pool' = release_connection(h_pool, s) /\ UNCHANGED h_open
       ELSE h_pool' = close_connection(h_pool, s) /\ h_open' = h_open \ {s}
    /\ UNCHANGED <<h_which, h_alive, h_acq, h_failed, h_out, h_made>>
    /\ HealthRestUnchanged

HealthNext ==
    \/ \E s \in 1..MaxHealthSessions : HealthDrops(s)
    \/ HealthAcquire
    \/ \E answered \in BOOLEAN : HealthChecked(answered)
    \/ \E reachable \in HealthReachable : HealthCreated(reachable)
    \/ \E s \in 1..MaxHealthSessions, answered \in BOOLEAN : HealthReleased(s, answered)
    \/ \E connected \in BOOLEAN : HealthGetConnection(connected)
    \/ \E s \in 1..MaxHealthSessions, answered \in BOOLEAN : HealthAsyncEnds(s, answered)

(***************************************************************************)
(* Callers of _check_smtp on several domains: the locks of the throttler   *)
(* and of the async pool.                                                  *)
(*                                                                         *)
(* "async with self._locks[domain]" is a step of its own: a caller stands  *)
(* at the lock ("throttle", "get", "release", "close") until the lock its  *)
(* domain selects has no holder.  Whether the throttler sleeps depends on  *)
(* the time since the domain's last request: o_recent holds the domains    *)
(* for which that time is shorter than the interval.                       *)
(***************************************************************************)
MaxIsoCallers == 2
MaxIsoCalls == 3

IsoCallers == 1..MaxIsoCallers
IsoDomains == {<<"g","m","a","i","l",".","c","o","m">>, <<"e","x","a","m","p","l","e",".","o","r","g">>}

IsoIdleCall == [pc |-> "idle", domain |-> <<>>, host |-> 0, conn |-> 0]

IsolationInit ==
    /\ o_call = [c \in IsoCallers |-> IsoIdleCall]
    /\ o_tlock = [d \in IsoDomains |-> 0]
    /\ o_plock = [d \in IsoDomains |-> 0]
    /\ o_recent = {}
    /\ o_pools = [d \in IsoDomains |-> <<>>]
    /\ o_calls = 0

IsolationRestUnchanged ==
    UNCHANGED <<now, fast_vars, async_vars, strict_vars, bulk_vars, dns_vars, idem_vars,
                score_vars, syntax_vars, pool_vars, throttle_vars, verifier_vars,
                retry_vars, cache_vars, capacity_vars, health_vars,
                last_vars>>

\* one lock for every domain
throttler_lock_OneForAll(domain) == CHOOSE d \in IsoDomains : TRUE

\* DomainThrottler: the lock that "self._locks[domain]" selects
throttler_lock(domain) == domain

\* SMTPConnectionPool: the lock that "self._locks[domain]" selects
pool_lock(domain) == domain

\* _check_smtp(email, mx_hosts, domain) is called and reaches
\* "await self._throttler.acquire(domain)"
IsoCheckSmtp(c, domain) ==
    /\ o_call[c].pc = "idle"
    /\ o_calls < MaxIsoCalls
    /\ o_calls' = o_calls + 1
    /\ o_call' = [o_call EXCEPT ![c] = [IsoIdleCall EXCEPT !.pc = "throttle",
                                                           !.domain = domain, !.host = 1]]
    /\ UNCHANGED <<o_tlock, o_plock, o_recent, o_pools>>
    /\ IsolationRestUnchanged

\* acquire enters its lock: with wait_time > 0 it sleeps inside the lock,
\* otherwise it records the request and returns
IsoThrottleEnter(c) ==
    /\ o_call[c].pc = "throttle"
    /\ o_tlock[throttler_lock(o_call[c].domain)] = 0
    /\ IF o_call[c].domain \in o_recent
         THEN /\ o_tlock' = [o_tlock EXCEPT ![throttler_lock(o_call[c].domain)] = c]
              /\ o_call' = [o_call EXCEPT ![c].pc = "sleeping"]
              /\ UNCHANGED o_recent
       ELSE /\ o_recent' = o_recent \cup {o_call[c].domain}
            /\ o_call' = [o_call EXCEPT ![c].pc = "get"]
            /\ UNCHANGED o_tlock
    /\ UNCHANGED <<o_plock, o_pools, o_calls>>
    /\ IsolationRestUnchanged

\* asyncio.sleep(wait_time) is over: the request is recorded and the lock
\* left
IsoThrottleWake(c) ==
    /\ o_call[c].pc = "sleeping"
    /\ o_tlock' = [o_tlock EXCEPT ![throttler_lock(o_call[c].domain)] = 0]
    /\ o_recent' = o_recent \cup {o_call[c].domain}
    /\ o_call' = [o_call EXCEPT ![c].pc = "get"]
    /\ UNCHANGED <<o_plock, o_pools, o_calls>>
    /\ IsolationRestUnchanged

\* an interval passes after the last request to the domain; no caller
\* sleeps for it (the sleep is shorter than the interval)
IsoIntervalPasses(domain) ==
    /\ domain \in o_recent
    /\ \A c \in IsoCallers : ~(o_call[c].pc = "sleeping" /\ o_call[c].domain = domain)
    /\ o_recent' = o_recent \ {domain}
    /\ UNCHANGED <<o_call, o_tlock, o_plock, o_pools, o_calls>>
    /\ IsolationRestUnchanged

\* get_connection enters its lock: an entry is reused and the lock left, or
\* a connection is being opened inside the lock, or the pool is full
IsoGetConnection(c) ==
    /\ o_call[c].pc = "get"
    /\ o_plock[pool_lock(o_call[c].domain)] = 0
    /\ \E got \in {get_connection(o_pools[o_call[c].domain], FALSE, now)} :
         /\ o_pools' = [o_pools EXCEPT ![o_call[c].domain] = got.pool]
         /\ IF got.conn # 0
              THEN /\ o_call' = [o_call EXCEPT ![c].pc = "session", ![c].conn = got.conn]
                   /\ UNCHANGED o_plock
            ELSE IF Len(got.pool) < POOL_SIZE_PER_DOMAIN
              THEN /\ o_call' = [o_call EXCEPT ![c].pc = "connecting"]
                   /\ o_plock' = [o_plock EXCEPT ![pool_lock(o_call[c].domain)] = c]
            ELSE /\ o_call' = [o_call EXCEPT ![c].pc = "session", ![c].conn = 0]
                 /\ UNCHANGED o_plock
    /\ UNCHANGED <<o_tlock, o_recent, o_calls>>
    /\ IsolationRestUnchanged

\* "await smtp.connect()" inside the lock is over: the entry is appended in
\* use, or get_connection returns None and _check_smtp goes on with a
\* connection of its own (conn 0)
IsoConnected(c, connected) ==
    /\ o_call[c].pc = "connecting"
    /\ o_plock' = [o_plock EXCEPT ![pool_lock(o_call[c].domain)] = 0]
    /\ IF connected
         THEN \E id \in {FreshId(o_pools[o_call[c].domain])} :
                /\ o_pools' = [o_pools EXCEPT ![o_call[c].domain] =
                                  Append(@, [id |-> id, created_at |-> now, in_use |-> TRUE])]
                /\ o_call' = [o_call EXCEPT ![c].pc = "session", ![c].conn = id]
       ELSE /\ o_call' = [o_call EXCEPT ![c].pc = "session", ![c].conn = 0]
            /\ UNCHANGED o_pools
    /\ UNCHANGED <<o_tlock, o_recent, o_calls>>
    /\ IsolationRestUnchanged

\* the commands of the session: answered, and release_connection follows,
\* or a time-out or an exception, and close_connection follows
IsoSession(c, answered) ==
    /\ o_call[c].pc = "session"
    /\ o_call' = [o_call EXCEPT ![c].pc = IF answered THEN "release" ELSE "close"]
    /\ UNCHANGED <<o_tlock, o_plock, o_recent, o_pools, o_calls>>
    /\ IsolationRestUnchanged

\* release_connection inside its lock, and the return of _check_smtp
IsoRelease(c) ==
    /\ o_call[c].pc = "release"
    /\ o_plock[pool_lock(o_call[c].domain)] = 0
    /\ o_pools' = [o_pools EXCEPT ![o_call[c].domain] = release_connection(@, o_call[c].conn)]
    /\ o_call' = [o_call EXCEPT ![c] = IsoIdleCall]
    /\ UNCHANGED <<o_tlock, o_plock, o_recent, o_calls>>
    /\ IsolationRestUnchanged

\* close_connection enters its lock, removes the entry and awaits quit
IsoClose(c) ==
    /\ o_call[c].pc = "close"
    /\ o_plock[pool_lock(o_call[c].domain)] = 0
    /\ o_plock' = [o_plock EXCEPT ![pool_lock(o_call[c].domain)] = c]
    /\ o_pools' = [o_pools EXCEPT ![o_call[c].domain] = close_connection(@, o_call[c].conn)]
    /\ o_call' = [o_call EXCEPT ![c].pc = "quitting"]
    /\ UNCHANGED <<o_tlock, o_recent, o_calls>>
    /\ IsolationRestUnchanged

\* smtp.quit() is over: the lock is left, and the loop goes on with the
\* second host when there is one
IsoQuit(c, more) ==
    /\ o_call[c].pc = "quitting"
    /\ o_plock' = [o_plock EXCEPT ![pool_lock(o_call[c].domain)] = 0]
    /\ IF more /\ o_call[c].host = 1
         THEN o_call' = [o_call EXCEPT ![c].pc = "get", ![c].host = 2, ![c].conn = 0]
       ELSE o_call' = [o_call EXCEPT ![c] = IsoIdleCall]
    /\ UNCHANGED <<o_tlock, o_recent, o_pools, o_calls>>
    /\ IsolationRestUnchanged

IsolationNext ==
    \/ \E c \in IsoCallers, domain \in IsoDomains : IsoCheckSmtp(c, domain)
    \/ \E c \in IsoCallers : IsoThrottleEnter(c)
    \/ \E c \in IsoCallers : IsoThrottleWake(c)
    \/ \E domain \in IsoDomains : IsoIntervalPasses(domain)
    \/ \E c \in IsoCallers : IsoGetConnection(c)
    \/ \E c \in IsoCallers, connected \in BOOLEAN : IsoConnected(c, connected)
    \/ \E c \in IsoCallers, answered \in BOOLEAN : IsoSession(c, answered)
    \/ \E c \in IsoCallers : IsoRelease(c)
    \/ \E c \in IsoCallers : IsoClose(c)
    \/ \E c \in IsoCallers, more \in BOOLEAN : IsoQuit(c, more)

(***************************************************************************)
(* The semaphores of fast_validator.py under one validate_bulk call.       *)
(*                                                                         *)
(* validate_bulk gathers one validate_email task per address.  Each takes  *)
(* a permit of FastEmailValidator._semaphore for the whole of              *)
(* _validate_single; inside it verify_smtp takes a permit of the domain's  *)
(* semaphore around its probe of the mail exchanger and gives it back on   *)
(* return; an accepted address then runs check_catchall, whose two         *)
(* verify_smtp probes are gathered and each take a permit of the same      *)
(* domain semaphore while the validation still holds its global permit.    *)
(* All the addresses are on one domain, which is the case of most          *)
(* contention: the semaphores of different domains are different objects.  *)
(* The validations are counted by the place they stand at.                 *)
(***************************************************************************)
MAX_CONCURRENT_VALIDATIONS == 200
MAX_CONCURRENT_SMTP_PER_DOMAIN == 5
MaxOverflow == 1
MaxAccepted == 5
MaxAcceptedOfMany == 1

\* the positions of the two probes of a check_catchall: w waits for the
\* domain's permit, p probes holding it, d is done
SemPairKinds == {"ww", "wp", "wd", "pp", "pd"}

\* the calls: the number of addresses and how many of them the mail
\* exchanger accepts.  One address more than the domain has permits, with
\* enough accepted ones for their catch-all probes to ask for more permits
\* than the domain has; or more addresses than there are global permits
SemCalls ==
    {<<MAX_CONCURRENT_SMTP_PER_DOMAIN + 1, a>> : a \in 0..MaxAccepted} \cup
    {<<MAX_CONCURRENT_VALIDATIONS + MaxOverflow, a>> : a \in 0..MaxAcceptedOfMany}

SemaphoreInit ==
    /\ sem_total = 0
    /\ sem_waiting = 0
    /\ sem_queued = 0
    /\ sem_probing = 0
    /\ sem_pairs = [k \in SemPairKinds |-> 0]
    /\ sem_done = 0
    /\ sem_valid = 0
    /\ sem_cached = FALSE

SemaphoreRestUnchanged ==
    UNCHANGED <<now, fast_vars, async_vars, strict_vars, bulk_vars, dns_vars, idem_vars,
                score_vars, syntax_vars, pool_vars, throttle_vars, verifier_vars,
                retry_vars, cache_vars, capacity_vars, health_vars, isolation_vars,
                shutdown_vars, finalize_vars>>

\* the validations in check_catchall
SemInCatchall(pairs) ==
    pairs["ww"] + pairs["wp"] + pairs["wd"] + pairs["pp"] + pairs["pd"]

\* the permits of self._semaphore that are taken
global_permits_held(queued, probing, pairs) ==
    queued + probing + SemInCatchall(pairs)

\* domain_permits_held when a validation kept the permit of its own probe
\* during check_catchall
domain_permits_held_Nested(probing, pairs) ==
    probing + SemInCatchall(pairs) + pairs["wp"] + 2 * pairs["pp"] + pairs["pd"]

\* the permits of self._domain_semaphores[domain] that are taken: one by
\* each verify_smtp that entered "async with" and has not returned
domain_permits_held(probing, pairs) ==
    probing + pairs["wp"] + 2 * pairs["pp"] + pairs["pd"]

\* validate_bulk up to the first suspension of the gathered tasks: each
\* validate_email takes a permit while one is left, the others wait
SemValidateBulk(n, accepted) ==
    /\ sem_total = 0
    /\ sem_total' = n
    /\ sem_queued' = IF n < MAX_CONCURRENT_VALIDATIONS THEN n ELSE MAX_CONCURRENT_VALIDATIONS
    /\ sem_waiting' = IF n < MAX_CONCURRENT_VALIDATIONS THEN 0
                      ELSE n - MAX_CONCURRENT_VALIDATIONS
    /\ sem_valid' = accepted
    /\ UNCHANGED <<sem_probing, sem_pairs, sem_done, sem_cached>>
    /\ SemaphoreRestUnchanged

\* a waiting validate_email gets a permit that was given back
SemEnter ==
    /\ sem_waiting > 0
    /\ global_permits_held(sem_queued, sem_probing, sem_pairs) < MAX_CONCURRENT_VALIDATIONS
    /\ sem_waiting' = sem_waiting - 1
    /\ sem_queued' = sem_queued + 1
    /\ UNCHANGED <<sem_total, sem_probing, sem_pairs, sem_done, sem_valid, sem_cached>>
    /\ SemaphoreRestUnchanged

\* _validate_single returns before verify_smtp (syntax, disposable, no mail
\* exchanger, trusted provider) and validate_email gives its permit back
SemSkipsSmtp ==
    /\ sem_queued > 0
    /\ sem_queued' = sem_queued - 1
    /\ sem_done' = sem_done + 1
    /\ UNCHANGED <<sem_total, sem_waiting, sem_probing, sem_pairs, sem_valid, sem_cached>>
    /\ SemaphoreRestUnchanged

\* verify_smtp enters "async with self._domain_semaphores[domain]"
SemProbeStarts ==
    /\ sem_queued > 0
    /\ domain_permits_held(sem_probing, sem_pairs) < MAX_CONCURRENT_SMTP_PER_DOMAIN
    /\ sem_queued' = sem_queued - 1
    /\ sem_probing' = sem_probing + 1
    /\ UNCHANGED <<sem_total, sem_waiting, sem_pairs, sem_done, sem_valid, sem_cached>>
    /\ SemaphoreRestUnchanged

\* the probe of the mail exchanger is over and verify_smtp gives the
\* domain's permit back: an address that was not accepted is returned, an
\* accepted one goes on to check_catchall, which answers from
\* _catchall_cache or gathers its two probes
SemProbeEnds(accepted) ==
    /\ sem_probing > 0
    /\ accepted => sem_valid > 0
    /\ sem_probing' = sem_probing - 1
    /\ IF accepted /\ ~sem_cached
         THEN /\ sem_pairs' = [sem_pairs EXCEPT !["ww"] = @ + 1]
              /\ UNCHANGED sem_done
       ELSE /\ sem_done' = sem_done + 1
            /\ UNCHANGED sem_pairs
    /\ sem_valid' = IF accepted THEN sem_valid - 1 ELSE sem_valid
    /\ UNCHANGED <<sem_total, sem_waiting, sem_queued, sem_cached>>
    /\ SemaphoreRestUnchanged

\* where a pair stands after one of its waiting probes took a permit
SemPairStarted(kind) ==
    CASE kind = "ww" -> "wp"
      [] kind = "wp" -> "pp"
      [] kind = "wd" -> "pd"

\* a probe of check_catchall enters "async with" of verify_smtp
SemCatchallProbeStarts(kind) ==
    /\ kind \in {"ww", "wp", "wd"}
    /\ sem_pairs[kind] > 0
    /\ domain_permits_held(sem_probing, sem_pairs) < MAX_CONCURRENT_SMTP_PER_DOMAIN
    /\ sem_pairs' = [sem_pairs EXCEPT ![kind] = @ - 1, ![SemPairStarted(kind)] = @ + 1]
    /\ UNCHANGED <<sem_total, sem_waiting, sem_queued, sem_probing, sem_done, sem_valid,
                   sem_cached>>
    /\ SemaphoreRestUnchanged

\* a probe of check_catchall is over and gives its permit back; after the
\* second one gather returns, check_catchall caches its answer and the
\* validation returns
SemCatchallProbeEnds(kind) ==
    /\ kind \in {"wp", "pp", "pd"}
    /\ sem_pairs[kind] > 0
    /\ IF kind = "pd"
         THEN /\ sem_pairs' = [sem_pairs EXCEPT !["pd"] = @ - 1]
              /\ sem_done' = sem_done + 1
              /\ sem_cached' = TRUE
       ELSE /\ sem_pairs' = [sem_pairs EXCEPT ![kind] = @ - 1,
                                              ![IF kind = "wp" THEN "wd" ELSE "pd"] = @ + 1]
            /\ UNCHANGED <<sem_done, sem_cached>>
    /\ UNCHANGED <<sem_total, sem_waiting, sem_queued, sem_probing, sem_valid>>
    /\ SemaphoreRestUnchanged

\* the entry of _catchall_cache expires
SemCacheExpires ==
    /\ sem_cached
    /\ sem_cached' = FALSE
    /\ UNCHANGED <<sem_total, sem_waiting, sem_queued, sem_probing, sem_pairs, sem_done,
                   sem_valid>>
    /\ SemaphoreRestUnchanged

SemaphoreNext ==
    \/ \E call \in SemCalls : SemValidateBulk(call[1], call[2])
    \/ SemEnter
    \/ SemSkipsSmtp
    \/ SemProbeStarts
    \/ \E accepted \in BOOLEAN : SemProbeEnds(accepted)
    \/ \E kind \in SemPairKinds : SemCatchallProbeStarts(kind)
    \/ \E kind \in SemPairKinds : SemCatchallProbeEnds(kind)
    \/ SemCacheExpires

\* the steps the event loop takes when they are possible: a released permit
\* wakes a waiter, and every network step ends within its timeout
SemaphoreFairness ==
    /\ WF_vars(SemEnter)
    /\ WF_vars(SemProbeStarts)
    /\ WF_vars(\E accepted \in BOOLEAN : SemProbeEnds(accepted))
    /\ WF_vars(\E kind \in SemPairKinds : SemCatchallProbeStarts(kind))
    /\ WF_vars(\E kind \in SemPairKinds : SemCatchallProbeEnds(kind))

\* the same for the callers of the async throttler and pool: a free lock is
\* given to a caller that waits for it, sleeps and network steps end
IsolationFairness ==
    \A c \in IsoCallers :
        /\ WF_vars(IsoThrottleEnter(c))
        /\ WF_vars(IsoThrottleWake(c))
        /\ WF_vars(IsoGetConnection(c))
        /\ WF_vars(\E connected \in BOOLEAN : IsoConnected(c, connected))
        /\ WF_vars(\E answered \in BOOLEAN : IsoSession(c, answered))
        /\ WF_vars(IsoRelease(c))
        /\ WF_vars(IsoClose(c))
        /\ WF_vars(\E more \in BOOLEAN : IsoQuit(c, more))

(***************************************************************************)
(* close_all of the async pool among get_connection, release_connection    *)
(* and close_connection.                                                   *)
(*                                                                         *)
(* self._pools is a defaultdict(list): reading self._pools[domain] for a   *)
(* key it does not hold inserts the key with a new list.  close_all        *)
(* iterates the dict and each list with "await conn.connection.quit()"     *)
(* inside the loops, holding _global_lock, which no other method takes;    *)
(* the other methods run under the lock of their domain.  A dict iterator  *)
(* raises RuntimeError when the dict changed size since the iteration      *)
(* began; a list iterator meets the entries appended to its list, and      *)
(* knows nothing of a list that replaced it in the dict.  The sessions     *)
(* stay younger than CONNECTION_TTL.                                       *)
(***************************************************************************)
MaxShutSessions == 3

ShutDomains == IsoDomains
ShutSessions == 1..MaxShutSessions

\* close_all before its loops: no key met, an exhausted list
ShutIdleIterator ==
    [size |-> 0, k |-> 0, domain |-> <<>>, alias |-> FALSE, list |-> <<>>, i |-> 1]

ShutdownInit ==
    /\ u_keys = <<>>
    /\ u_pools = [d \in ShutDomains |-> <<>>]
    /\ u_lock = [d \in ShutDomains |-> "free"]
    /\ u_pc = "idle"
    /\ u_it = ShutIdleIterator
    /\ u_quit = {}
    /\ u_dropped = {}
    /\ u_held = {}
    /\ u_made = 0

ShutdownRestUnchanged ==
    UNCHANGED <<now, fast_vars, async_vars, strict_vars, bulk_vars, dns_vars, idem_vars,
                score_vars, syntax_vars, pool_vars, throttle_vars, verifier_vars,
                retry_vars, cache_vars, capacity_vars, health_vars, isolation_vars,
                semaphore_vars, finalize_vars>>

\* the keys after "self._pools[domain]" was read
ShutTouched(keys, domain) ==
    IF \E k \in 1..Len(keys) : keys[k] = domain THEN keys ELSE Append(keys, domain)

\* the sessions of the entries of every list of the dict
ShutPooled(pools) ==
    UNION {{pools[d][k].id : k \in 1..Len(pools[d])} : d \in ShutDomains}

\* the list iterator of close_all after self._pools[domain] was given a new
\* list: it goes on over the list it was made for
ShutDetached(it, domain, pools) ==
    IF it.alias /\ it.domain = domain
      THEN [it EXCEPT !.alias = FALSE, !.list = pools[domain]]
    ELSE it

\* close_all from one await to the next: the next entry of the list in hand
\* is sent quit; when the list is exhausted the dict iterator is advanced,
\* which raises RuntimeError if the dict changed size, and after the last
\* key "self._pools.clear()" runs
RECURSIVE close_all(_, _, _)
close_all(keys, pools, it) ==
    LET list == IF it.alias THEN pools[it.domain] ELSE it.list
    IN  IF it.i <= Len(list)
          THEN [pc |-> "quitting", it |-> [it EXCEPT !.i = @ + 1], conn |-> list[it.i].id]
        ELSE IF Len(keys) # it.size
          THEN [pc |-> "raised", it |-> ShutIdleIterator, conn |-> 0]
        ELSE IF it.k >= Len(keys)
          THEN [pc |-> "done", it |-> ShutIdleIterator, conn |-> 0]
        ELSE close_all(keys, pools,
                       [it EXCEPT !.k = @ + 1, !.domain = keys[it.k + 1], !.alias = TRUE,
                                  !.list = <<>>, !.i = 1])

\* the state after close_all ran from the iterator it to its next await or
\* to its end
ShutRuns(it) ==
    \E r \in {close_all(u_keys, u_pools, it)} :
        /\ u_pc' = r.pc
        /\ u_it' = r.it
        /\ u_quit' = IF r.pc = "quitting" THEN u_quit \cup {r.conn} ELSE u_quit
        /\ IF r.pc = "done"
             THEN /\ u_dropped' = ShutPooled(u_pools)
                  /\ u_pools' = [d \in ShutDomains |-> <<>>]
                  /\ u_keys' = <<>>
           ELSE UNCHANGED <<u_dropped, u_pools, u_keys>>
    /\ UNCHANGED <<now, u_lock, u_held, u_made>>
    /\ ShutdownRestUnchanged

\* close_all is called
ShutCloseAll ==
    /\ u_pc = "idle"
    /\ ShutRuns([ShutIdleIterator EXCEPT !.size = Len(u_keys)])

\* "await conn.connection.quit()" of close_all is over
ShutQuitEnds ==
    /\ u_pc = "quitting"
    /\ ShutRuns(u_it)

\* get_connection up to its return or to "await smtp.connect()"
ShutGetConnection(domain) ==
    /\ u_lock[domain] = "free"
    /\ u_keys' = ShutTouched(u_keys, domain)
    /\ \E got \in {get_connection(u_pools[domain], FALSE, now)} :
         IF got.reused
           THEN /\ u_pools' = [u_pools EXCEPT ![domain] = got.pool]
                /\ u_held' = u_held \cup {<<got.conn, domain>>}
                /\ UNCHANGED <<u_lock, u_it>>
         ELSE /\ u_pools' = [u_pools EXCEPT ![domain] = got.pool]
              /\ u_it' = ShutDetached(u_it, domain, u_pools)
              /\ u_lock' = [u_lock EXCEPT ![domain] =
                              IF Len(got.pool) < POOL_SIZE_PER_DOMAIN THEN "connect"
                              ELSE "free"]
              /\ UNCHANGED u_held
    /\ UNCHANGED <<now, u_pc, u_quit, u_dropped, u_made>>
    /\ ShutdownRestUnchanged

\* smtp.connect() is over: the new entry is appended to self._pools[domain],
\* or the exception makes get_connection return None
ShutConnected(domain, connected) ==
    /\ u_lock[domain] = "connect"
    /\ connected => u_made < MaxShutSessions
    /\ u_lock' = [u_lock EXCEPT ![domain] = "free"]
    /\ IF connected
         THEN /\ u_keys' = ShutTouched(u_keys, domain)
              /\ u_pools' = [u_pools EXCEPT ![domain] =
                               Append(@, [id |-> u_made + 1, created_at |-> now,
                                          in_use |-> TRUE])]
              /\ u_held' = u_held \cup {<<u_made + 1, domain>>}
              /\ u_made' = u_made + 1
       ELSE UNCHANGED <<u_keys, u_pools, u_held, u_made>>
    /\ UNCHANGED <<now, u_pc, u_it, u_quit, u_dropped>>
    /\ ShutdownRestUnchanged

\* release_connection by the holder of a session
ShutRelease(held) ==
    /\ held \in u_held
    /\ u_lock[held[2]] = "free"
    /\ u_keys' = ShutTouched(u_keys, held[2])
    /\ u_pools' = [u_pools EXCEPT ![held[2]] = release_connection(@, held[1])]
    /\ u_held' = u_held \ {held}
    /\ UNCHANGED <<now, u_lock, u_pc, u_it, u_quit, u_dropped, u_made>>
    /\ ShutdownRestUnchanged

\* close_connection by the holder of a session, up to "await smtp.quit()"
ShutClose(held) ==
    /\ held \in u_held
    /\ u_lock[held[2]] = "free"
    /\ u_keys' = ShutTouched(u_keys, held[2])
    /\ u_pools' = [u_pools EXCEPT ![held[2]] = close_connection(@, held[1])]
    /\ u_it' = ShutDetached(u_it, held[2], u_pools)
    /\ u_quit' = u_quit \cup {held[1]}
    /\ u_lock' = [u_lock EXCEPT ![held[2]] = "quit"]
    /\ u_held' = u_held \ {held}
    /\ UNCHANGED <<now, u_pc, u_dropped, u_made>>
    /\ ShutdownRestUnchanged

\* smtp.quit() of close_connection is over
ShutCloseEnds(domain) ==
    /\ u_lock[domain] = "quit"
    /\ u_lock' = [u_lock EXCEPT ![domain] = "free"]
    /\ UNCHANGED <<now, u_keys, u_pools, u_pc, u_it, u_quit, u_dropped, u_held, u_made>>
    /\ ShutdownRestUnchanged

ShutdownNext ==
    \/ ShutCloseAll
    \/ ShutQuitEnds
    \/ \E domain \in ShutDomains : ShutGetConnection(domain)
    \/ \E domain \in ShutDomains, connected \in BOOLEAN : ShutConnected(domain, connected)
    \/ \E held \in ShutSessions \X ShutDomains : ShutRelease(held)
    \/ \E held \in ShutSessions \X ShutDomains : ShutClose(held)
    \/ \E domain \in ShutDomains : ShutCloseEnds(domain)

(***************************************************************************)
(* strict_validator.py: the end of validate_email, after the SMTP          *)
(* verification, applied to the flags of an address and to the way the     *)
(* session ended.  DISPOSABLE_DOMAINS and BLACKLIST_DOMAINS are read from  *)
(* files, so a domain may be on both lists.                                *)
(***************************************************************************)
FinalizeFlags ==
    [is_disposable : BOOLEAN, is_blacklisted : BOOLEAN, is_role_based : BOOLEAN]

FinalizeInit ==
    /\ z_flags = [is_disposable |-> FALSE, is_blacklisted |-> FALSE, is_role_based |-> FALSE]
    /\ z_outcome = StrictOutcome("none", 0, <<>>)
    /\ z_out = <<>>

\* the result validate_email has built when it calls _finalize_result after
\* the verification: the three stages valid, the fields of smtp_result and
\* the flags of the address (local_part, domain_name and mx_hosts, which
\* _finalize_result does not read, are left as _init_result made them)
StrictVerified(email, flags, smtp_result) ==
    [strict_init_result(email) EXCEPT
        !.syntax = "valid", !.domain = "valid", !.mx = "valid",
        !.smtp_attempted = smtp_result.smtp_attempted,
        !.smtp_code = smtp_result.smtp_code,
        !.status = smtp_result.status,
        !.reason = smtp_result.reason,
        !.retry_recommended = smtp_result.retry_recommended,
        !.is_disposable = flags.is_disposable,
        !.is_blacklisted = flags.is_blacklisted,
        !.is_role_based = flags.is_role_based]

\* validate_email returns self._finalize_result(result)
FinalizeReturns ==
    /\ z_out = <<>>
    /\ z_outcome.kind # "none"
    /\ z_out' = <<_finalize_result(StrictVerified(<<"j","o","h","n","d","o","e","@","e","x","a","m","p","l","e",".","o","r","g">>, z_flags,
                                                  Strict_verify_single_mx(z_outcome)))>>
    /\ UNCHANGED <<z_flags, z_outcome>>
    /\ UNCHANGED <<now, fast_vars, async_vars, strict_vars, bulk_vars, dns_vars, idem_vars,
                   score_vars, syntax_vars, pool_vars, throttle_vars, verifier_vars,
                   retry_vars, cache_vars, capacity_vars, health_vars, isolation_vars,
                   semaphore_vars, shutdown_vars>>

FinalizeNext == FinalizeReturns

(***************************************************************************)
(* Claims about the capacity and the age of pooled sessions (SpecCapacity) *)
(***************************************************************************)
\* C31: after any sequence of acquire and release operations the idle list
\* of the per-domain pool holds at most max_size sessions, and the async
\* pool tracks at most POOL_SIZE_PER_DOMAIN sessions of the domain.
C31_PoolCapacity ==
    /\ q_idle <= DOMAIN_POOL_MAX_SIZE
    /\ CapTracked(q_in_use, q_free) <= POOL_SIZE_PER_DOMAIN

\* the idle list is full while a caller still holds a session to release
C31_Witness ==
    /\ q_which = "domain"
    /\ q_idle = DOMAIN_POOL_MAX_SIZE
    /\ q_held > 0
    /\ q_lock = "free"

\* the creation times of the entries that a step takes from not in use to
\* in use: the sessions handed out for reuse
CapReused == {t \in CapTimes : q_free'[t] < q_free[t] /\ q_in_use'[t] > q_in_use[t]}

\* C32: get_connection hands out for reuse no session older than
\* CONNECTION_TTL, and when it returns no session older than the TTL is left
\* in the pool of the domain.
C32_SessionTtl ==
    [][CapGetConnection =>
         /\ \A t \in CapReused : ~CapExpired(t, now)
         /\ \A t \in CapTimes :
              CapExpired(t, now) => q_in_use'[t] + q_free'[t] = 0]_vars

(***************************************************************************)
(* Claims about the liveness of pooled sessions (SpecHealth)               *)
(***************************************************************************)
\* C33: a pooled idle session is handed to a caller only after it passed
\* the liveness check at that hand-out; a session that failed the check is
\* closed and is never handed out; and a session opened by the hand-out is
\* connected to the first host, in the order of the list, that accepts the
\* connection.
C33_HealthOnReuse ==
    /\ h_failed \cap h_open = {}
    /\ h_out # <<>> =>
         /\ h_out[1].reused => (h_out[1].checked /\ h_out[1].alive)
         /\ ~h_out[1].failed
         /\ (h_which = "domain" /\ ~h_out[1].reused) =>
              /\ h_out[1].reachable[h_out[1].host]
              /\ \A h \in HealthHosts : h < h_out[1].host => ~h_out[1].reachable[h]

(***************************************************************************)
(* Claims about the locks of the throttler and of the pool (SpecIsolation) *)
(***************************************************************************)
\* the caller that holds the lock c stands at, or 0
IsoHolder(c) ==
    IF o_call[c].pc = "throttle" THEN o_tlock[throttler_lock(o_call[c].domain)]
    ELSE IF o_call[c].pc \in {"get", "release", "close"}
      THEN o_plock[pool_lock(o_call[c].domain)]
    ELSE 0

\* C34: a caller that has to wait for a lock of the throttler or of the pool
\* waits for a caller that works on the same domain: while the throttler
\* sleeps or the pool connects for one domain, the operations on another
\* domain find their lock free.
C34_DomainIsolation ==
    \A c \in IsoCallers :
        IsoHolder(c) # 0 => o_call[IsoHolder(c)].domain = o_call[c].domain

\* the throttler sleeps for one domain while, for another domain, a caller
\* has passed the throttler and the pool is opening its connection
C34_Witness ==
    \E c1 \in IsoCallers, c2 \in IsoCallers :
        /\ o_call[c1].pc = "sleeping"
        /\ o_call[c2].pc = "connecting"
        /\ o_call[c1].domain # o_call[c2].domain

(***************************************************************************)
(* Claims about the semaphores of the fast validator (SpecSemaphoreLive)   *)
(***************************************************************************)
\* a validate_bulk call that has not returned
SemPending == sem_total > 0 /\ sem_done < sem_total

\* a network step is in progress, or somebody waits for a permit that is
\* free
SemSomeStepRuns ==
    \/ sem_probing > 0
    \/ sem_pairs["wp"] + sem_pairs["pp"] + sem_pairs["pd"] > 0
    \/ /\ sem_queued + sem_pairs["ww"] + sem_pairs["wp"] + sem_pairs["wd"] > 0
       /\ domain_permits_held(sem_probing, sem_pairs) < MAX_CONCURRENT_SMTP_PER_DOMAIN
    \/ /\ sem_waiting > 0
       /\ global_permits_held(sem_queued, sem_probing, sem_pairs) < MAX_CONCURRENT_VALIDATIONS

\* C35: while validations are pending, the global semaphore and the domain's
\* semaphore (also taken by the two catch-all probes of a validation that
\* holds its global permit) never leave everybody waiting: a network step
\* is in progress or a waited-for permit is free; and when every network
\* step terminates, every validate_bulk call eventually returns.
C35_NoDeadlock ==
    /\ [](SemPending => SemSomeStepRuns)
    /\ (sem_total > 0) ~> (sem_done = sem_total)

\* more validations than global permits: one waits for the global
\* semaphore, every permit of the domain is taken, and a catch-all probe
\* waits for one while its validation holds a global permit
C35_Witness ==
    /\ sem_waiting > 0
    /\ domain_permits_held(sem_probing, sem_pairs) = MAX_CONCURRENT_SMTP_PER_DOMAIN
    /\ sem_pairs["ww"] + sem_pairs["wp"] + sem_pairs["wd"] > 0
    /\ sem_queued > 0

\* the same for the locks of the async throttler and pool: every _check_smtp
\* that started returns
IsoEveryCallReturns ==
    \A c \in IsoCallers : (o_call[c].pc # "idle") ~> (o_call[c].pc = "idle")

(***************************************************************************)
(* Claims about the shutdown of the async pool (SpecShutdown)              *)
(***************************************************************************)
\* C36: when close_all runs interleaved with get_connection,
\* release_connection and close_connection, every session it removed from
\* the pools has been sent quit, and close_all does not raise.
C36_ShutdownClean ==
    /\ u_dropped \subseteq u_quit
    /\ u_pc # "raised"

\* the same for the sessions alone
ShutDroppedWereQuit == u_dropped \subseteq u_quit

\* close_all returned after it removed sessions, with calls of the other
\* methods under way
ShutInterleaved ==
    /\ u_pc = "done"
    /\ u_dropped # {}
    /\ u_held # {}

(***************************************************************************)
(* Claims about the greylisting retry of verify_smtp (SpecRetry)           *)
(***************************************************************************)
\* the retries of the call that were answered with a definitive rejection
RetryRejections(log) ==
    {k \in 1..Len(log) : log[k].attempt = 2 /\ log[k].code \in {550, 551, 553, 554}}

\* C37: with retry_greylisting set, when the first probe of a host is
\* greylisted and the retry is answered with a definitive rejection (550,
\* 551, 553, 554), the value verify_smtp returns carries the code and the
\* status of the retry, not those of the first probe.
C37_RetryDecides ==
    (g_out # <<>> /\ g_retry) =>
        \A k \in RetryRejections(g_out[1].log) :
            LET retry_result == _verify_single_mx(g_plan[g_out[1].log[k].host][2])
            IN  /\ g_out[1].result.code = retry_result.code
                /\ g_out[1].result.status = retry_result.status

\* the case of C37 occurred: a call with a greylisted first probe and a
\* rejected retry returned
RetryRejected == g_out # <<>> /\ g_retry /\ RetryRejections(g_out[1].log) # {}

(***************************************************************************)
(* Claims about the race of the strict verifier (SpecStrict)               *)
(***************************************************************************)
\* what verify returns when the raced hosts end as outcomes says and their
\* tasks are met in the given order of completion
StrictRaceValue(outcomes, order) ==
    LET loop == ProcessDone([k \in 1..Len(order) |->
                                Strict_verify_single_mx(outcomes[order[k]])], StrictNone)
    IN  IF ~loop.returned /\ loop.value.status = "None" THEN StrictAllFailed
        ELSE loop.value

\* the outcomes of the raced hosts that agree with the sessions that ended:
\* the session of a cancelled task may have been about to end in any way
StrictRaceOutcomes ==
    {outcomes \in [1..Len(s_tasks) -> StrictOutcomes] :
        \A i \in 1..Len(s_tasks) :
            s_tasks[i].state = "done" => outcomes[i] = s_tasks[i].outcome}

\* C38: for fixed outcomes of the raced hosts the status verify returns is
\* the same in every order of completion: the status a race returned is the
\* status of every other order in which the same hosts could have completed.
C38_RaceDeterminism ==
    (s_pc = "done" /\ Len(s_tasks) > 1) =>
        \A outcomes \in StrictRaceOutcomes, order \in OrdersOf(1..Len(s_tasks)) :
            StrictRaceValue(outcomes, order).status = s_result.status

\* the same, for the races in which every host ended before verify returned
\* and none gave a definitive answer
StrictRaceOfUndecided ==
    (s_pc = "done" /\ Len(s_tasks) > 1
       /\ \A i \in 1..Len(s_tasks) :
            s_tasks[i].state = "done" /\ s_tasks[i].result.status \notin {"VALID", "INVALID"}) =>
        \A order \in OrdersOf(1..Len(s_tasks)) :
            StrictRaceValue([i \in 1..Len(s_tasks) |-> s_tasks[i].outcome], order).status
              = s_result.status

(***************************************************************************)
(* Claims about the results of the strict validator (SpecBulk)             *)
(***************************************************************************)
\* the image of a status in the legacy format
StrictStatusLowercase(status) ==
    IF status = "VALID" THEN "safe"
    ELSE IF status = "INVALID" THEN "invalid"
    ELSE IF status = "RISKY" THEN "risky"
    ELSE "unknown"

\* the flags of a result agree with its status
StrictResultConsistent(result) ==
    /\ result.is_valid <=> result.status = "VALID"
    /\ result.is_deliverable <=> result.status = "VALID"
    /\ result.is_risky <=> result.status = "RISKY"
    /\ result.status_lowercase = StrictStatusLowercase(result.status)

\* C39: in every result the strict validator returns from _finalize_result,
\* is_valid and is_deliverable are true exactly when status is VALID,
\* is_risky exactly when status is RISKY, and status_lowercase is the image
\* of the final status, for every status of the verification and every
\* combination of the disposable, blacklisted and role flags.
C39_FinalizedConsistent ==
    z_out # <<>> => StrictResultConsistent(z_out[1])

\* the same for the addresses that are neither on a disposable nor on a
\* blacklisted domain
StrictPlainConsistent ==
    (z_out # <<>> /\ ~z_flags.is_disposable /\ ~z_flags.is_blacklisted) =>
        StrictResultConsistent(z_out[1])

\* and for the results of the strict validate_bulk on its addresses, none
\* of which is on such a domain
StrictBulkConsistent ==
    StrictBulk => \A i \in 1..Len(b_results) : StrictResultConsistent(b_results[i])

(***************************************************************************)
(* Specifications: one per validator, over the same state                  *)
(***************************************************************************)
\* the components modelled after the validators, before anything is called
LateInit ==
    /\ CapacityInit
    /\ HealthInit
    /\ IsolationInit
    /\ SemaphoreInit
    /\ ShutdownInit
    /\ FinalizeInit

ExtInit ==
    /\ SyntaxInit
    /\ PoolInit
    /\ ThrottleInit
    /\ VerifierInit
    /\ RetryInit
    /\ CacheInit
    /\ LateInit

\* the state Init and InitAsync have in common, but for a_mx_cache
Constructed ==
    /\ now = 0
    /\ FastInit
    /\ AsyncInit
    /\ StrictInit
    /\ BulkInit
    /\ DnsInit
    /\ IdemInit
    /\ ScoreInit

\* the validators after construction (the default one: with no warm-up
\* answer cached)
Init ==
    /\ now = 0
    /\ FastInit
    /\ AsyncInit
    /\ a_mx_cache = <<>>
    /\ StrictInit
    /\ BulkInit
    /\ DnsInit
    /\ IdemInit
    /\ ScoreInit
    /\ ExtInit

\* the same with every outcome of the warm-up of the default validator
InitAsync ==
    /\ now = 0
    /\ FastInit
    /\ AsyncInit
    /\ StrictInit
    /\ BulkInit
    /\ DnsInit
    /\ IdemInit
    /\ ScoreInit
    /\ ExtInit

\* the same with the phase results classify_status is called with
InitScore ==
    /\ now = 0
    /\ FastInit
    /\ AsyncInit
    /\ a_mx_cache = <<>>
    /\ StrictInit
    /\ BulkInit
    /\ DnsInit
    /\ IdemInit
    /\ c_phases \in PhaseInputs
    /\ ScoreIdle
    /\ ExtInit

Next == FastNext

\* the fast pipeline
Spec == Init /\ [][Next]_vars

\* the default pipeline
SpecAsync == InitAsync /\ [][AsyncNext]_vars

\* the strict verifier
SpecStrict == Init /\ [][StrictNext]_vars

\* validate_bulk of the three validators
SpecBulk == InitAsync /\ [][BulkNext]_vars

\* the resolvers of the fast and the strict validator
SpecDns == Init /\ [][DnsNext]_vars

\* one address validated twice by the fast validator
SpecIdem == Init /\ [][IdemNext]_vars

\* classify_status and calculate_full_score
SpecScore == InitScore /\ [][ScoreNext]_vars

\* the syntax checks, for every string of the bounded set
InitSyntax ==
    /\ Constructed
    /\ a_mx_cache = <<>>
    /\ x_email \in SyntaxInputs
    /\ SyntaxIdle
    /\ PoolInit
    /\ ThrottleInit
    /\ VerifierInit
    /\ RetryInit
    /\ CacheInit
    /\ LateInit

SpecSyntax == InitSyntax /\ [][SyntaxNext]_vars

\* concurrent callers of a connection pool
SpecPool == Init /\ [][PoolNext]_vars

\* concurrent callers of the throttler
SpecThrottle == Init /\ [][ThrottleNext]_vars

\* concurrent calls of the strict SMTP verifier
SpecVerifier == Init /\ [][VerifierNext]_vars

\* verify_smtp applied to each input
InitRetry ==
    /\ Constructed
    /\ a_mx_cache = <<>>
    /\ SyntaxInit
    /\ PoolInit
    /\ ThrottleInit
    /\ VerifierInit
    /\ CacheInit
    /\ LateInit
    /\ g_hosts \in RetryMxLists
    /\ g_retry \in BOOLEAN
    /\ g_plan \in [1..Len(g_hosts) -> RetryPlans]
    /\ g_out = <<>>

SpecRetry == InitRetry /\ [][RetryNext]_vars

\* the caches read and written as the clock advances
SpecCache == Init /\ [][CacheNext]_vars

\* a pool used by any number of callers
SpecCapacity == Init /\ [][CapacityNext]_vars

\* a pool whose sessions the servers may drop
SpecHealth == Init /\ [][HealthNext]_vars

\* callers of the throttler and of the async pool on several domains
SpecIsolation == Init /\ [][IsolationNext]_vars

\* the validations of one validate_bulk call at the semaphores
SpecSemaphore == Init /\ [][SemaphoreNext]_vars

\* the same, when the event loop runs what can run and network steps end
SpecSemaphoreLive == SpecSemaphore /\ SemaphoreFairness

\* close_all of the async pool among the calls of its other methods
SpecShutdown == Init /\ [][ShutdownNext]_vars

\* the end of the strict validate_email applied to each input
InitFinalize ==
    /\ Constructed
    /\ a_mx_cache = <<>>
    /\ SyntaxInit
    /\ PoolInit
    /\ ThrottleInit
    /\ VerifierInit
    /\ RetryInit
    /\ CacheInit
    /\ CapacityInit
    /\ HealthInit
    /\ IsolationInit
    /\ SemaphoreInit
    /\ ShutdownInit
    /\ z_flags \in FinalizeFlags
    /\ z_outcome \in StrictOutcomes
    /\ z_out = <<>>

SpecFinalize == InitFinalize /\ [][FinalizeNext]_vars

\* the callers of the async throttler and pool under the same scheduling
SpecIsolationLive == SpecIsolation /\ IsolationFairness

=============================================================================
